---- MODULE Spec2Model ----
(***************************************************************************)
(* Nonce extraction and signature re-verification for TPM elliptic-curve   *)
(* signatures (analysis/common.py).                                        *)
(*                                                                         *)
(* The registries keep the source's curve names and byte lengths.  The     *)
(* group parameters (field prime, coefficients, generator, order) are      *)
(* scaled down to small prime-order curves, because the 192..638 bit       *)
(* constants of the source do not fit the integers of TLC; each scaled     *)
(* curve keeps what the formulas depend on: the order n is prime, the      *)
(* cofactor is 1, n is smaller than the field prime (so x-coordinates      *)
(* >= n exist), and a point with x = 0 exists exactly on the curves where  *)
(* it exists in the source (P192, P256, P384, P521, SM256).                *)
(* hashlib.sha256 is a fixed 32-byte digest function of the message bytes. *)
(* Hex strings are sequences of character codes: 0..15 are the hex digits, *)
(* any larger code is a character that is no hex digit.                    *)
(***************************************************************************)
EXTENDS Integers, Sequences, FiniteSets, TLC

VARIABLES
    row,          \* the signature record the engine is called on
    out,          \* the call made and its outcome
    stdout,       \* the writes made to standard output, in order
    threads,      \* concurrent calls: each thread's call and its position
    registries,   \* the module-level tables of common.py
    resources,    \* the resources handed to create_all
    gen,          \* the generator create_all returned, as suspended
    files,        \* the text streams: position and whether closed
    log,          \* the records written with the logging module
    delivered,    \* the measurements the consumer has received
    session,      \* the ORM session of a Database.Handle and the rows behind it
    cache,        \* the 'default' cache region: statement key -> frozen result
    handle_tables, \* Database.Handle.tables: aggregate -> algorithm -> id -> value
    executed,     \* how often each aggregate query was executed on the handle
    generator,    \* the generator factory.stats or factory.box_stats returned
    calls         \* the number of calls made on the database

vars == <<row, out, stdout, threads, registries, resources, gen, files, log, delivered,
          session, cache, handle_tables, executed, generator, calls>>

\* the variables of concurrent calls, idle while single calls are checked
concVars == <<threads, registries>>

\* the variables of batch creation
batchVars == <<resources, gen, files, log, delivered>>

\* the variables of a database handle
dbVars == <<session, cache, handle_tables, executed, generator, calls>>

exceptCore == <<concVars, batchVars, dbVars>>

exceptConc == <<row, out, batchVars, dbVars>>

exceptBatch == <<row, out, stdout, concVars, dbVars>>

exceptDb == <<row, stdout, concVars, batchVars>>

(***************************************************************************)
(* Python values: a call returns a value or raises an exception.           *)
(***************************************************************************)
Return(v) == [tag |-> "return", val |-> v]

Raise(exc) == [tag |-> "raise", val |-> exc]

None == <<>>

(***************************************************************************)
(* Integer helpers: pow(s, -1, n), int.to_bytes, int.from_bytes, int(e,16) *)
(***************************************************************************)
RECURSIVE egcd(_, _)
\* <<g, u, v>> with g = gcd(a, b) and a*u + b*v = g
egcd(a, b) ==
    IF b = 0 THEN <<a, 1, 0>>
    ELSE LET t == egcd(b, a % b)
         IN  <<t[1], t[3], t[2] - (a \div b) * t[3]>>

\* pow_inv without the test for a common factor
pow_inv_unchecked(s, n) == Return(egcd(s % n, n)[2] % n)

\* pow(s, -1, n): ValueError when s has no inverse modulo n
pow_inv(s, n) ==
    LET t == egcd(s % n, n)
    IN  IF t[1] = 1 THEN Return(t[2] % n)
        ELSE Raise("ValueError: base is not invertible for the given modulus")

RECURSIVE fits(_, _)
\* v < 256^length
fits(v, length) ==
    IF v = 0 THEN TRUE
    ELSE IF length = 0 THEN FALSE
    ELSE fits(v \div 256, length - 1)

\* 256^k for the byte positions an integer of the model can fill
pow256(k) == CASE k = 0 -> 1 [] k = 1 -> 256 [] k = 2 -> 65536 [] k = 3 -> 16777216

\* the big-endian bytes of v on length bytes (v fits: every byte above the
\* fourth from the right is zero)
be_bytes(v, length) ==
    [i \in 1..length |-> IF length - i > 3 THEN 0 ELSE (v \div pow256(length - i)) % 256]

\* int.to_bytes(v, byteorder="big", length=length), unsigned
int_to_bytes(v, length) ==
    IF v < 0 THEN Raise("OverflowError: can't convert negative int to unsigned")
    ELSE IF ~fits(v, length) THEN Raise("OverflowError: int too big to convert")
    ELSE Return(be_bytes(v, length))

RECURSIVE radix_fold(_, _, _, _, _)
\* <<value, weight>> of digits[lo..hi] in the given radix modulo m:
\* value = sum of digits[i] * radix^(hi-i), weight = radix^(hi-lo+1)
radix_fold(digits, lo, hi, radix, m) ==
    IF lo > hi THEN <<0, 1 % m>>
    ELSE IF lo = hi THEN <<digits[lo] % m, radix % m>>
    ELSE LET mid == (lo + hi) \div 2
             L == radix_fold(digits, lo, mid, radix, m)
             R == radix_fold(digits, mid + 1, hi, radix, m)
         IN  <<(L[1] * R[2] + R[1]) % m, (L[2] * R[2]) % m>>

\* int.from_bytes(bytes, byteorder="big") % n
int_from_bytes_mod(bytes, n) == radix_fold(bytes, 1, Len(bytes), 256, n)[1]

IsHex(chars) == \A i \in 1..Len(chars) : chars[i] \in 0..15

RECURSIVE hex_digits_value(_, _, _)
hex_digits_value(chars, lo, hi) ==
    IF lo > hi THEN 0
    ELSE IF lo = hi THEN chars[lo]
    ELSE LET mid == (lo + hi) \div 2
         IN  hex_digits_value(chars, lo, mid) * (16 ^ (hi - mid))
                 + hex_digits_value(chars, mid + 1, hi)

\* the integer written by hex digits: the value of the digits that follow
\* the leading zeros
hex_value(chars) ==
    LET significant == {i \in 1..Len(chars) : chars[i] # 0}
    IN  IF significant = {} THEN 0
        ELSE hex_digits_value(chars,
                 CHOOSE i \in significant : \A j \in significant : i <= j, Len(chars))

\* the characters of a digest by their codes.  0..15 are the ASCII hex
\* digits.  The other ASCII characters: a white-space character int() drops
\* (space), the signs, the underscore, the x or X of a prefix, and any other
\* one.  The characters outside ASCII: a white-space character int() drops
\* (blank), the decimal digit of value d (digit + d), and any other one
\* (foreign).
CHAR ==
    [other |-> 16, space |-> 17, plus |-> 18, minus |-> 19, underscore |-> 20, x |-> 21,
     blank |-> 22, foreign |-> 23, digit |-> 32]

\* the codes of the decimal digits outside ASCII
FOREIGN_DIGITS == CHAR.digit..(CHAR.digit + 9)

\* the codes of the characters outside ASCII
NON_ASCII == {CHAR.blank, CHAR.foreign} \cup FOREIGN_DIGITS

\* the codes of the digits int(e, 16) takes, and the value of one
DIGITS16 == (0..15) \cup FOREIGN_DIGITS

digit16(c) == IF c \in FOREIGN_DIGITS THEN c - CHAR.digit ELSE c

\* the literal without the white space around it; <<>> when nothing is left
strip16(e) ==
    LET inked == {i \in 1..Len(e) : e[i] \notin {CHAR.space, CHAR.blank}}
    IN  IF inked = {} THEN <<>>
        ELSE SubSeq(e, CHOOSE i \in inked : \A j \in 1..(i - 1) : j \notin inked,
                       CHOOSE i \in inked : \A j \in (i + 1)..Len(e) : j \notin inked)

\* the literal without a leading sign
unsigned16(body) ==
    IF body # <<>> /\ body[1] \in {CHAR.plus, CHAR.minus} THEN Tail(body) ELSE body

\* the literal without a leading 0x and without one underscore after it
unprefixed16(unsigned) ==
    IF Len(unsigned) >= 2 /\ unsigned[1] \in {0, CHAR.digit} /\ unsigned[2] = CHAR.x
    THEN IF Len(unsigned) >= 3 /\ unsigned[3] = CHAR.underscore
         THEN SubSeq(unsigned, 4, Len(unsigned))
         ELSE SubSeq(unsigned, 3, Len(unsigned))
    ELSE unsigned

\* digits, grouped by single underscores
valid16(digits) ==
    /\ Len(digits) > 0
    /\ \A i \in 1..Len(digits) : digits[i] \in DIGITS16 \cup {CHAR.underscore}
    /\ digits[1] # CHAR.underscore
    /\ digits[Len(digits)] # CHAR.underscore
    /\ \A i \in 1..(Len(digits) - 1) :
           ~(digits[i] = CHAR.underscore /\ digits[i + 1] = CHAR.underscore)

signed16(negative, value) == IF negative THEN 0 - value ELSE value

\* the values of the digits of a literal, the underscores left out
values16(digits) ==
    LET kept == SelectSeq(digits, LAMBDA c : c # CHAR.underscore)
    IN  [i \in 1..Len(kept) |-> digit16(kept[i])]

digits16(negative, digits) ==
    IF ~valid16(digits) THEN Raise("ValueError: invalid literal for int() with base 16")
    ELSE Return(signed16(negative, hex_value(values16(digits))))

literal16(body) ==
    digits16(body # <<>> /\ body[1] = CHAR.minus, unprefixed16(unsigned16(body)))

\* int(e, 16): white space around the literal is dropped; a sign and a 0x
\* prefix may lead; the digits may be grouped by single underscores, one of
\* which may follow the prefix; a decimal digit outside ASCII stands for the
\* ASCII digit of its value
int16(e) == literal16(strip16(e))

hex_pairs(chars) == [i \in 1..(Len(chars) \div 2) |-> chars[2 * i - 1] * 16 + chars[2 * i]]

\* binascii.unhexlify(e) of a str: the str is encoded as ASCII first
unhexlify(e) ==
    IF \E i \in 1..Len(e) : e[i] \in NON_ASCII
    THEN Raise("ValueError: string argument should contain only ASCII characters")
    ELSE IF Len(e) % 2 = 1 THEN Raise("binascii.Error: Odd-length string")
    ELSE IF ~IsHex(e) THEN Raise("binascii.Error: Non-hexadecimal digit found")
    ELSE Return(hex_pairs(e))

\* binascii.hexlify(bytes)
hexlify(bytes) ==
    [i \in 1..(2 * Len(bytes)) |->
        IF i % 2 = 1 THEN bytes[(i + 1) \div 2] \div 16 ELSE bytes[i \div 2] % 16]

\* math.ceil(math.log2(n) / 8): the least L with n <= 256^L
RECURSIVE log2_bytes(_)
log2_bytes(n) == IF n <= 1 THEN 0 ELSE 1 + log2_bytes((n + 255) \div 256)

(***************************************************************************)
(* hashlib.sha256: update() appends to the message, digest() is a fixed    *)
(* function of the whole message (its length, and each non-zero byte with  *)
(* its position) giving SHA256_LEN bytes.                                  *)
(***************************************************************************)
SHA256_LEN == 32

sha256_new == <<>>

sha256_update(hasher, bytes) == hasher \o bytes

RECURSIVE weigh(_, _)
\* the sum over the positions in at of a weight of the byte there
weigh(message, at) ==
    IF at = {} THEN 0
    ELSE LET i == CHOOSE j \in at : TRUE
         IN  (((message[i] * (i * i + 7 * i + 1)) % 8191) + weigh(message, at \ {i})) % 8191

sha256_digest(hasher) ==
    LET nonzero == {i \in 1..Len(hasher) : hasher[i] # 0}
        acc == (5381 + 131 * Len(hasher) + weigh(hasher, nonzero)) % 8191
    IN  [i \in 1..SHA256_LEN |-> ((acc + i) * (2 * i + 1) + (acc \div 7)) % 256]

(***************************************************************************)
(* The registries.                                                         *)
(***************************************************************************)
CurveNames == {"P192", "P224", "P256", "P384", "P521", "BN256", "BN638", "SM256"}

AlgNames == {"ECDSA", "ECDAA", "SM2", "ECSCHNORR"}

\* fastecdsa curves behind GENERATORS: field prime p, coefficients a and b,
\* order q, generator (gx, gy); scaled (see the module comment)
CURVE_PARAMS ==
    [c \in CurveNames |->
        CASE c = "P192"  -> [p |-> 17, a |-> 6,  b |-> 8,  q |-> 13, gx |-> 1,  gy |-> 7]
          [] c = "P224"  -> [p |-> 11, a |-> 8,  b |-> 10, q |-> 7,  gx |-> 2,  gy |-> 1]
          [] c = "P256"  -> [p |-> 17, a |-> 7,  b |-> 4,  q |-> 13, gx |-> 2,  gy |-> 3]
          [] c = "P384"  -> [p |-> 17, a |-> 10, b |-> 1,  q |-> 13, gx |-> 8,  gy |-> 7]
          [] c = "P521"  -> [p |-> 17, a |-> 11, b |-> 2,  q |-> 13, gx |-> 2,  gy |-> 7]
          [] c = "BN256" -> [p |-> 19, a |-> 0,  b |-> 3,  q |-> 13, gx |-> 1,  gy |-> 2]
          [] c = "BN638" -> [p |-> 19, a |-> 0,  b |-> 2,  q |-> 13, gx |-> 18, gy |-> 1]
          [] c = "SM256" -> [p |-> 17, a |-> 7,  b |-> 13, q |-> 13, gx |-> 1,  gy |-> 2]]

CURVE_ORDER == [c \in CurveNames |-> CURVE_PARAMS[c].q]

\* bit length of the source's CURVE_ORDER entries
CURVE_ORDER_BITS ==
    [c \in CurveNames |->
        CASE c = "P192" -> 192 [] c = "P224" -> 224 [] c = "P256" -> 256
          [] c = "P384" -> 384 [] c = "P521" -> 521 [] c = "BN256" -> 256
          [] c = "BN638" -> 638 [] c = "SM256" -> 256]

(***************************************************************************)
(* fastecdsa.point.Point over a curve: the group law.  The identity        *)
(* element has coordinates (0, 0).                                         *)
(***************************************************************************)
IDENTITY_ELEMENT == [x |-> 0, y |-> 0]

is_point_on_curve(cv, x, y) ==
    /\ x \in 0..(cv.p - 1)
    /\ y \in 0..(cv.p - 1)
    /\ (y * y) % cv.p = (x * x * x + cv.a * x + cv.b) % cv.p

\* Point(x, y, curve=...): ValueError unless the coordinates are on the curve
Point(cv, x, y) ==
    IF is_point_on_curve(cv, x, y) THEN Return([x |-> x, y |-> y])
    ELSE Raise("ValueError: coordinates are not on curve")

field_inv(v, p) == egcd(v % p, p)[2] % p

point_neg(cv, P) ==
    IF P = IDENTITY_ELEMENT THEN P ELSE [x |-> P.x, y |-> (cv.p - P.y) % cv.p]

point_add(cv, P, Q) ==
    IF P = IDENTITY_ELEMENT THEN Q
    ELSE IF Q = IDENTITY_ELEMENT THEN P
    ELSE IF P.x = Q.x /\ (P.y + Q.y) % cv.p = 0 THEN IDENTITY_ELEMENT
    ELSE LET lam == IF P = Q
                    THEN ((3 * P.x * P.x + cv.a) * field_inv(2 * P.y, cv.p)) % cv.p
                    ELSE ((Q.y - P.y) * field_inv(Q.x - P.x, cv.p)) % cv.p
             x3  == (lam * lam - P.x - Q.x) % cv.p
         IN  [x |-> x3, y |-> (lam * (P.x - x3) - P.y) % cv.p]

point_sub(cv, P, Q) == point_add(cv, P, point_neg(cv, Q))

RECURSIVE point_mul(_, _, _)
\* scalar * P; a negative scalar gives -(|scalar| * P)
point_mul(cv, scalar, P) ==
    IF scalar = 0 THEN IDENTITY_ELEMENT
    ELSE IF scalar < 0 THEN point_neg(cv, point_mul(cv, 0 - scalar, P))
    ELSE LET h == point_mul(cv, scalar \div 2, P)
             d == point_add(cv, h, h)
         IN  IF scalar % 2 = 1 THEN point_add(cv, d, P) ELSE d

GENERATORS == [c \in CurveNames |-> [x |-> CURVE_PARAMS[c].gx, y |-> CURVE_PARAMS[c].gy]]

(***************************************************************************)
(* curve_bytes: the tests are substring tests on the name ("P192" in       *)
(* curve), made in the order of the source.  NAME_CHARS spells the names    *)
(* the model passes to curve_bytes.                                        *)
(***************************************************************************)
NAME_CHARS ==
    ("P192" :> <<"P", "1", "9", "2">>) @@
    ("P224" :> <<"P", "2", "2", "4">>) @@
    ("P256" :> <<"P", "2", "5", "6">>) @@
    ("P384" :> <<"P", "3", "8", "4">>) @@
    ("P521" :> <<"P", "5", "2", "1">>) @@
    ("BN256" :> <<"B", "N", "2", "5", "6">>) @@
    ("BN638" :> <<"B", "N", "6", "3", "8">>) @@
    ("SM256" :> <<"S", "M", "2", "5", "6">>) @@
    ("P256K1" :> <<"P", "2", "5", "6", "K", "1">>) @@
    ("secp256k1" :> <<"s", "e", "c", "p", "2", "5", "6", "k", "1">>) @@
    ("" :> <<>>) @@
    ("NIST P521" :> <<"N", "I", "S", "T", " ", "P", "5", "2", "1">>) @@
    ("p256" :> <<"p", "2", "5", "6">>) @@
    ("P192P224" :> <<"P", "1", "9", "2", "P", "2", "2", "4">>)

\* part in whole, on sequences of characters
is_substring(part, whole) ==
    \E i \in 0..(Len(whole) - Len(part)) : SubSeq(whole, i + 1, i + Len(part)) = part

\* part in curve
str_contains(curve, part) == is_substring(NAME_CHARS[part], NAME_CHARS[curve])

\* the byte length of the field prime (bit length of the prime, rounded up)
FIELD_PRIME_BITS ==
    [c \in CurveNames |->
        CASE c = "P192" -> 192 [] c = "P224" -> 224 [] c = "P256" -> 256
          [] c = "P384" -> 384 [] c = "P521" -> 521 [] c = "BN256" -> 256
          [] c = "BN638" -> 638 [] c = "SM256" -> 256]

\* curve_bytes rounding the bit length down
curve_bytes_floor(curve) ==
    IF str_contains(curve, "P192") THEN 192 \div 8
    ELSE IF str_contains(curve, "P224") THEN 224 \div 8
    ELSE IF str_contains(curve, "P256") THEN 256 \div 8
    ELSE IF str_contains(curve, "P384") THEN 384 \div 8
    ELSE IF str_contains(curve, "P521") THEN 521 \div 8
    ELSE IF str_contains(curve, "BN256") THEN 256 \div 8
    ELSE IF str_contains(curve, "BN638") THEN 638 \div 8
    ELSE IF str_contains(curve, "SM256") THEN 256 \div 8
    ELSE 0

curve_bytes(curve) ==
    IF str_contains(curve, "P192") THEN (192 + 7) \div 8
    ELSE IF str_contains(curve, "P224") THEN (224 + 7) \div 8
    ELSE IF str_contains(curve, "P256") THEN (256 + 7) \div 8
    ELSE IF str_contains(curve, "P384") THEN (384 + 7) \div 8
    ELSE IF str_contains(curve, "P521") THEN (521 + 7) \div 8
    ELSE IF str_contains(curve, "BN256") THEN (256 + 7) \div 8
    ELSE IF str_contains(curve, "BN638") THEN (638 + 7) \div 8
    ELSE IF str_contains(curve, "SM256") THEN (256 + 7) \div 8
    ELSE 0

(***************************************************************************)
(* The name <-> wire-code tables of common.py and of extract_signatures.py *)
(* (there CURVES and ALGS, here attack_CURVES and attack_ALGS).  A code is *)
(* a string, spelled as its sequence of characters.                        *)
(***************************************************************************)
HEX_DIGIT ==
    ("0" :> 0) @@ ("1" :> 1) @@ ("2" :> 2) @@ ("3" :> 3) @@ ("4" :> 4) @@ ("5" :> 5) @@ ("6" :> 6) @@ ("7" :> 7) @@
    ("8" :> 8) @@ ("9" :> 9) @@
    ("a" :> 10) @@ ("b" :> 11) @@ ("c" :> 12) @@ ("d" :> 13) @@ ("e" :> 14) @@ ("f" :> 15) @@
    ("A" :> 10) @@ ("B" :> 11) @@ ("C" :> 12) @@ ("D" :> 13) @@ ("E" :> 14) @@ ("F" :> 15)

\* the characters str.isspace() holds of, which str.rstrip() drops; a
\* character that has no spelling in a string is written as its code point
WHITESPACE ==
    {" ", "\t", "\n", "\r", "\f", "U+000B", "U+001C", "U+001D", "U+001E", "U+001F",
     "U+0085", "U+00A0", "U+1680", "U+2000", "U+2001", "U+2002", "U+2003", "U+2004",
     "U+2005", "U+2006", "U+2007", "U+2008", "U+2009", "U+200A", "U+2028", "U+2029",
     "U+202F", "U+205F", "U+3000"}

\* the information separators: white space to str.isspace(), but no white
\* space to int() and float()
SEPARATORS == {"U+001C", "U+001D", "U+001E", "U+001F"}

\* the characters int() and float() drop around a literal
STRIPPED == WHITESPACE \ SEPARATORS

\* the ASCII characters that are written as their code points: the control
\* characters without an escape, and the grave accent
ASCII_CONTROLS ==
    {"U+0000", "U+0001", "U+0002", "U+0003", "U+0004", "U+0005", "U+0006", "U+0007",
     "U+0008", "U+000B", "U+000E", "U+000F", "U+0010", "U+0011", "U+0012", "U+0013",
     "U+0014", "U+0015", "U+0016", "U+0017", "U+0018", "U+0019", "U+001A", "U+001B",
     "U+001C", "U+001D", "U+001E", "U+001F", "U+0060", "U+007F"}

\* the characters of ASCII
ASCII ==
    {"\t", "\n", "\r", "\f",
     " ", "!", "\"", "#", "$", "%", "&", "'", "(", ")", "*", "+", ",", "-", ".", "/",
     "0", "1", "2", "3", "4", "5", "6", "7", "8", "9", ":", ";", "<", "=", ">", "?",
     "@", "A", "B", "C", "D", "E", "F", "G", "H", "I", "J", "K", "L", "M", "N", "O",
     "P", "Q", "R", "S", "T", "U", "V", "W", "X", "Y", "Z", "[", "\\", "]", "^", "_",
     "a", "b", "c", "d", "e", "f", "g", "h", "i", "j", "k", "l", "m", "n", "o", "p",
     "q", "r", "s", "t", "u", "v", "w", "x", "y", "z", "{", "|", "}", "~"}
        \cup ASCII_CONTROLS

isascii(c) == c \in ASCII

\* the decimal digits outside ASCII (Unicode 14.0, the database of Python
\* 3.11): runs of ten, each from its zero to its nine
DECIMALS ==
    <<
       <<"U+0660", "U+0661", "U+0662", "U+0663", "U+0664", "U+0665", "U+0666", "U+0667", "U+0668", "U+0669">>,
       <<"U+06F0", "U+06F1", "U+06F2", "U+06F3", "U+06F4", "U+06F5", "U+06F6", "U+06F7", "U+06F8", "U+06F9">>,
       <<"U+07C0", "U+07C1", "U+07C2", "U+07C3", "U+07C4", "U+07C5", "U+07C6", "U+07C7", "U+07C8", "U+07C9">>,
       <<"U+0966", "U+0967", "U+0968", "U+0969", "U+096A", "U+096B", "U+096C", "U+096D", "U+096E", "U+096F">>,
       <<"U+09E6", "U+09E7", "U+09E8", "U+09E9", "U+09EA", "U+09EB", "U+09EC", "U+09ED", "U+09EE", "U+09EF">>,
       <<"U+0A66", "U+0A67", "U+0A68", "U+0A69", "U+0A6A", "U+0A6B", "U+0A6C", "U+0A6D", "U+0A6E", "U+0A6F">>,
       <<"U+0AE6", "U+0AE7", "U+0AE8", "U+0AE9", "U+0AEA", "U+0AEB", "U+0AEC", "U+0AED", "U+0AEE", "U+0AEF">>,
       <<"U+0B66", "U+0B67", "U+0B68", "U+0B69", "U+0B6A", "U+0B6B", "U+0B6C", "U+0B6D", "U+0B6E", "U+0B6F">>,
       <<"U+0BE6", "U+0BE7", "U+0BE8", "U+0BE9", "U+0BEA", "U+0BEB", "U+0BEC", "U+0BED", "U+0BEE", "U+0BEF">>,
       <<"U+0C66", "U+0C67", "U+0C68", "U+0C69", "U+0C6A", "U+0C6B", "U+0C6C", "U+0C6D", "U+0C6E", "U+0C6F">>,
       <<"U+0CE6", "U+0CE7", "U+0CE8", "U+0CE9", "U+0CEA", "U+0CEB", "U+0CEC", "U+0CED", "U+0CEE", "U+0CEF">>,
       <<"U+0D66", "U+0D67", "U+0D68", "U+0D69", "U+0D6A", "U+0D6B", "U+0D6C", "U+0D6D", "U+0D6E", "U+0D6F">>,
       <<"U+0DE6", "U+0DE7", "U+0DE8", "U+0DE9", "U+0DEA", "U+0DEB", "U+0DEC", "U+0DED", "U+0DEE", "U+0DEF">>,
       <<"U+0E50", "U+0E51", "U+0E52", "U+0E53", "U+0E54", "U+0E55", "U+0E56", "U+0E57", "U+0E58", "U+0E59">>,
       <<"U+0ED0", "U+0ED1", "U+0ED2", "U+0ED3", "U+0ED4", "U+0ED5", "U+0ED6", "U+0ED7", "U+0ED8", "U+0ED9">>,
       <<"U+0F20", "U+0F21", "U+0F22", "U+0F23", "U+0F24", "U+0F25", "U+0F26", "U+0F27", "U+0F28", "U+0F29">>,
       <<"U+1040", "U+1041", "U+1042", "U+1043", "U+1044", "U+1045", "U+1046", "U+1047", "U+1048", "U+1049">>,
       <<"U+1090", "U+1091", "U+1092", "U+1093", "U+1094", "U+1095", "U+1096", "U+1097", "U+1098", "U+1099">>,
       <<"U+17E0", "U+17E1", "U+17E2", "U+17E3", "U+17E4", "U+17E5", "U+17E6", "U+17E7", "U+17E8", "U+17E9">>,
       <<"U+1810", "U+1811", "U+1812", "U+1813", "U+1814", "U+1815", "U+1816", "U+1817", "U+1818", "U+1819">>,
       <<"U+1946", "U+1947", "U+1948", "U+1949", "U+194A", "U+194B", "U+194C", "U+194D", "U+194E", "U+194F">>,
       <<"U+19D0", "U+19D1", "U+19D2", "U+19D3", "U+19D4", "U+19D5", "U+19D6", "U+19D7", "U+19D8", "U+19D9">>,
       <<"U+1A80", "U+1A81", "U+1A82", "U+1A83", "U+1A84", "U+1A85", "U+1A86", "U+1A87", "U+1A88", "U+1A89">>,
       <<"U+1A90", "U+1A91", "U+1A92", "U+1A93", "U+1A94", "U+1A95", "U+1A96", "U+1A97", "U+1A98", "U+1A99">>,
       <<"U+1B50", "U+1B51", "U+1B52", "U+1B53", "U+1B54", "U+1B55", "U+1B56", "U+1B57", "U+1B58", "U+1B59">>,
       <<"U+1BB0", "U+1BB1", "U+1BB2", "U+1BB3", "U+1BB4", "U+1BB5", "U+1BB6", "U+1BB7", "U+1BB8", "U+1BB9">>,
       <<"U+1C40", "U+1C41", "U+1C42", "U+1C43", "U+1C44", "U+1C45", "U+1C46", "U+1C47", "U+1C48", "U+1C49">>,
       <<"U+1C50", "U+1C51", "U+1C52", "U+1C53", "U+1C54", "U+1C55", "U+1C56", "U+1C57", "U+1C58", "U+1C59">>,
       <<"U+A620", "U+A621", "U+A622", "U+A623", "U+A624", "U+A625", "U+A626", "U+A627", "U+A628", "U+A629">>,
       <<"U+A8D0", "U+A8D1", "U+A8D2", "U+A8D3", "U+A8D4", "U+A8D5", "U+A8D6", "U+A8D7", "U+A8D8", "U+A8D9">>,
       <<"U+A900", "U+A901", "U+A902", "U+A903", "U+A904", "U+A905", "U+A906", "U+A907", "U+A908", "U+A909">>,
       <<"U+A9D0", "U+A9D1", "U+A9D2", "U+A9D3", "U+A9D4", "U+A9D5", "U+A9D6", "U+A9D7", "U+A9D8", "U+A9D9">>,
       <<"U+A9F0", "U+A9F1", "U+A9F2", "U+A9F3", "U+A9F4", "U+A9F5", "U+A9F6", "U+A9F7", "U+A9F8", "U+A9F9">>,
       <<"U+AA50", "U+AA51", "U+AA52", "U+AA53", "U+AA54", "U+AA55", "U+AA56", "U+AA57", "U+AA58", "U+AA59">>,
       <<"U+ABF0", "U+ABF1", "U+ABF2", "U+ABF3", "U+ABF4", "U+ABF5", "U+ABF6", "U+ABF7", "U+ABF8", "U+ABF9">>,
       <<"U+FF10", "U+FF11", "U+FF12", "U+FF13", "U+FF14", "U+FF15", "U+FF16", "U+FF17", "U+FF18", "U+FF19">>,
       <<"U+104A0", "U+104A1", "U+104A2", "U+104A3", "U+104A4", "U+104A5", "U+104A6", "U+104A7", "U+104A8", "U+104A9">>,
       <<"U+10D30", "U+10D31", "U+10D32", "U+10D33", "U+10D34", "U+10D35", "U+10D36", "U+10D37", "U+10D38", "U+10D39">>,
       <<"U+11066", "U+11067", "U+11068", "U+11069", "U+1106A", "U+1106B", "U+1106C", "U+1106D", "U+1106E", "U+1106F">>,
       <<"U+110F0", "U+110F1", "U+110F2", "U+110F3", "U+110F4", "U+110F5", "U+110F6", "U+110F7", "U+110F8", "U+110F9">>,
       <<"U+11136", "U+11137", "U+11138", "U+11139", "U+1113A", "U+1113B", "U+1113C", "U+1113D", "U+1113E", "U+1113F">>,
       <<"U+111D0", "U+111D1", "U+111D2", "U+111D3", "U+111D4", "U+111D5", "U+111D6", "U+111D7", "U+111D8", "U+111D9">>,
       <<"U+112F0", "U+112F1", "U+112F2", "U+112F3", "U+112F4", "U+112F5", "U+112F6", "U+112F7", "U+112F8", "U+112F9">>,
       <<"U+11450", "U+11451", "U+11452", "U+11453", "U+11454", "U+11455", "U+11456", "U+11457", "U+11458", "U+11459">>,
       <<"U+114D0", "U+114D1", "U+114D2", "U+114D3", "U+114D4", "U+114D5", "U+114D6", "U+114D7", "U+114D8", "U+114D9">>,
       <<"U+11650", "U+11651", "U+11652", "U+11653", "U+11654", "U+11655", "U+11656", "U+11657", "U+11658", "U+11659">>,
       <<"U+116C0", "U+116C1", "U+116C2", "U+116C3", "U+116C4", "U+116C5", "U+116C6", "U+116C7", "U+116C8", "U+116C9">>,
       <<"U+11730", "U+11731", "U+11732", "U+11733", "U+11734", "U+11735", "U+11736", "U+11737", "U+11738", "U+11739">>,
       <<"U+118E0", "U+118E1", "U+118E2", "U+118E3", "U+118E4", "U+118E5", "U+118E6", "U+118E7", "U+118E8", "U+118E9">>,
       <<"U+11950", "U+11951", "U+11952", "U+11953", "U+11954", "U+11955", "U+11956", "U+11957", "U+11958", "U+11959">>,
       <<"U+11C50", "U+11C51", "U+11C52", "U+11C53", "U+11C54", "U+11C55", "U+11C56", "U+11C57", "U+11C58", "U+11C59">>,
       <<"U+11D50", "U+11D51", "U+11D52", "U+11D53", "U+11D54", "U+11D55", "U+11D56", "U+11D57", "U+11D58", "U+11D59">>,
       <<"U+11DA0", "U+11DA1", "U+11DA2", "U+11DA3", "U+11DA4", "U+11DA5", "U+11DA6", "U+11DA7", "U+11DA8", "U+11DA9">>,
       <<"U+16A60", "U+16A61", "U+16A62", "U+16A63", "U+16A64", "U+16A65", "U+16A66", "U+16A67", "U+16A68", "U+16A69">>,
       <<"U+16AC0", "U+16AC1", "U+16AC2", "U+16AC3", "U+16AC4", "U+16AC5", "U+16AC6", "U+16AC7", "U+16AC8", "U+16AC9">>,
       <<"U+16B50", "U+16B51", "U+16B52", "U+16B53", "U+16B54", "U+16B55", "U+16B56", "U+16B57", "U+16B58", "U+16B59">>,
       <<"U+1D7CE", "U+1D7CF", "U+1D7D0", "U+1D7D1", "U+1D7D2", "U+1D7D3", "U+1D7D4", "U+1D7D5", "U+1D7D6", "U+1D7D7">>,
       <<"U+1D7D8", "U+1D7D9", "U+1D7DA", "U+1D7DB", "U+1D7DC", "U+1D7DD", "U+1D7DE", "U+1D7DF", "U+1D7E0", "U+1D7E1">>,
       <<"U+1D7E2", "U+1D7E3", "U+1D7E4", "U+1D7E5", "U+1D7E6", "U+1D7E7", "U+1D7E8", "U+1D7E9", "U+1D7EA", "U+1D7EB">>,
       <<"U+1D7EC", "U+1D7ED", "U+1D7EE", "U+1D7EF", "U+1D7F0", "U+1D7F1", "U+1D7F2", "U+1D7F3", "U+1D7F4", "U+1D7F5">>,
       <<"U+1D7F6", "U+1D7F7", "U+1D7F8", "U+1D7F9", "U+1D7FA", "U+1D7FB", "U+1D7FC", "U+1D7FD", "U+1D7FE", "U+1D7FF">>,
       <<"U+1E140", "U+1E141", "U+1E142", "U+1E143", "U+1E144", "U+1E145", "U+1E146", "U+1E147", "U+1E148", "U+1E149">>,
       <<"U+1E2F0", "U+1E2F1", "U+1E2F2", "U+1E2F3", "U+1E2F4", "U+1E2F5", "U+1E2F6", "U+1E2F7", "U+1E2F8", "U+1E2F9">>,
       <<"U+1E950", "U+1E951", "U+1E952", "U+1E953", "U+1E954", "U+1E955", "U+1E956", "U+1E957", "U+1E958", "U+1E959">>,
       <<"U+1FBF0", "U+1FBF1", "U+1FBF2", "U+1FBF3", "U+1FBF4", "U+1FBF5", "U+1FBF6", "U+1FBF7", "U+1FBF8", "U+1FBF9">>
    >>

isdecimal(c) == \E k \in DOMAIN DECIMALS : \E d \in 1..10 : DECIMALS[k][d] = c

\* unicodedata.decimal(c) of a decimal digit outside ASCII
decimal(c) == CHOOSE d \in 0..9 : \E k \in DOMAIN DECIMALS : DECIMALS[k][d + 1] = c

\* the code of a character
char_code(c) ==
    IF c \in DOMAIN HEX_DIGIT THEN HEX_DIGIT[c]
    ELSE IF c = "+" THEN CHAR.plus
    ELSE IF c = "-" THEN CHAR.minus
    ELSE IF c = "_" THEN CHAR.underscore
    ELSE IF c \in {"x", "X"} THEN CHAR.x
    ELSE IF c \in STRIPPED THEN IF isascii(c) THEN CHAR.space ELSE CHAR.blank
    ELSE IF isascii(c) THEN CHAR.other
    ELSE IF isdecimal(c) THEN CHAR.digit + decimal(c)
    ELSE CHAR.foreign

\* int(v, 16) on a string of characters
int16_str(v) == int16([i \in 1..Len(v) |-> char_code(v[i])])

CURVES ==
    ("P192" :> <<"0", "x", "0", "0", "0", "1">>) @@
    ("P224" :> <<"0", "x", "0", "0", "0", "2">>) @@
    ("P256" :> <<"0", "x", "0", "0", "0", "3">>) @@
    ("P384" :> <<"0", "x", "0", "0", "0", "4">>) @@
    ("P521" :> <<"0", "x", "0", "0", "0", "5">>) @@
    ("BN256" :> <<"0", "x", "0", "0", "1", "0">>) @@
    ("BN638" :> <<"0", "x", "0", "0", "1", "1">>) @@
    ("SM256" :> <<"0", "x", "0", "0", "2", "0">>)

\* {int(v, 16): k for k, v in CURVES.items()}
CURVES_REVERSED ==
    [code \in {int16_str(CURVES[k]).val : k \in DOMAIN CURVES} |->
        CHOOSE k \in DOMAIN CURVES : int16_str(CURVES[k]).val = code]

ALGS ==
    ("ECDSA" :> <<"0", "x", "0", "0", "1", "8">>) @@
    ("ECDAA" :> <<"0", "x", "0", "0", "1", "a">>) @@
    ("SM2" :> <<"0", "x", "0", "0", "1", "b">>) @@
    ("ECSCHNORR" :> <<"0", "x", "0", "0", "1", "c">>)

\* {int(v, 16): k for k, v in ALGS.items()}
ALGS_REVERSED ==
    [code \in {int16_str(ALGS[k]).val : k \in DOMAIN ALGS} |->
        CHOOSE k \in DOMAIN ALGS : int16_str(ALGS[k]).val = code]

attack_CURVES ==
    (<<"0", "x", "0", "0", "0", "1">> :> "P192") @@
    (<<"0", "x", "0", "0", "0", "2">> :> "P224") @@
    (<<"0", "x", "0", "0", "0", "3">> :> "P256") @@
    (<<"0", "x", "0", "0", "0", "4">> :> "P384") @@
    (<<"0", "x", "0", "0", "0", "5">> :> "P521") @@
    (<<"0", "x", "0", "0", "1", "0">> :> "BN256") @@
    (<<"0", "x", "0", "0", "1", "1">> :> "BN638") @@
    (<<"0", "x", "0", "0", "2", "0">> :> "SM256")

attack_ALGS ==
    (<<"0", "x", "0", "0", "1", "8">> :> "ECDSA") @@
    (<<"0", "x", "0", "0", "1", "a">> :> "ECDAA") @@
    (<<"0", "x", "0", "0", "1", "b">> :> "SM2") @@
    (<<"0", "x", "0", "0", "1", "c">> :> "ECSCHNORR")

\* a lookup that yields a default for a missing key
dict_get_default(table, key) ==
    IF key \in DOMAIN table THEN Return(table[key]) ELSE Return(table[CHOOSE k \in DOMAIN table : TRUE])

\* table[key]
dict_get(table, key) ==
    IF key \in DOMAIN table THEN Return(table[key]) ELSE Raise("KeyError")

(***************************************************************************)
(* get_device_info.  A capability report is a file: it exists or not, and  *)
(* yaml.safe_load of it raises or returns a document.  A document is a     *)
(* value of Python: a str (its sequence of characters), an int, a float, a *)
(* bool, None, a list, a dict from keys to values, the bytes of a !!binary *)
(* node, or the date of a timestamp node.  A float is carried              *)
(* as the decimal number its text spells: sign * coef * 10^exp with coef   *)
(* not a multiple of 10 (0 has exp 0), or as an infinity or the NaN; an    *)
(* int is carried as such a decimal too.  The engine compares a revision   *)
(* with 1.33 and 1.36 only, and takes it in hundredths (1.36 is 136).      *)
(***************************************************************************)
DEC_DIGIT ==
    ("0" :> 0) @@ ("1" :> 1) @@ ("2" :> 2) @@ ("3" :> 3) @@ ("4" :> 4) @@ ("5" :> 5) @@ ("6" :> 6) @@ ("7" :> 7) @@
    ("8" :> 8) @@ ("9" :> 9)

\* the value of a decimal digit, of ASCII or not
digit_value(c) == IF c \in DOMAIN DEC_DIGIT THEN DEC_DIGIT[c] ELSE decimal(c)

RECURSIVE dec_value(_)
dec_value(chars) ==
    IF chars = <<>> THEN 0
    ELSE 10 * dec_value(SubSeq(chars, 1, Len(chars) - 1)) + digit_value(chars[Len(chars)])

Finite(sign, coef, exp) == [kind |-> "finite", sign |-> sign, coef |-> coef, exp |-> exp]

Infinity(sign) == [kind |-> "inf", sign |-> sign, coef |-> 0, exp |-> 0]

NaN == [kind |-> "nan", sign |-> 1, coef |-> 0, exp |-> 0]

\* the decimal with the trailing zeros of coef moved into exp
RECURSIVE normal(_, _, _)
normal(sign, coef, exp) ==
    IF coef = 0 THEN Finite(sign, 0, 0)
    ELSE IF coef % 10 = 0 THEN normal(sign, coef \div 10, exp + 1)
    ELSE Finite(sign, coef, exp)

\* the letters of inf, infinity and nan, in lower case
LOWER ==
    ("I" :> "i") @@ ("N" :> "n") @@ ("F" :> "f") @@ ("T" :> "t") @@ ("Y" :> "y") @@ ("A" :> "a") @@
    ("i" :> "i") @@ ("n" :> "n") @@ ("f" :> "f") @@ ("t" :> "t") @@ ("y" :> "y") @@ ("a" :> "a")

IsDigit(c) == c \in DOMAIN DEC_DIGIT \/ isdecimal(c)

IsDigits(chars) == \A i \in 1..Len(chars) : IsDigit(chars[i])

\* the first index of chars with a character of set, or Len(chars) + 1
find_first(chars, set) ==
    LET hits == {i \in 1..Len(chars) : chars[i] \in set}
    IN  IF hits = {} THEN Len(chars) + 1 ELSE CHOOSE i \in hits : \A j \in hits : i <= j

RECURSIVE digit_count(_)
digit_count(n) == IF n < 10 THEN 1 ELSE 1 + digit_count(n \div 10)

\* the largest double is 1.7976931348623157e308; a decimal above it is an
\* infinity.  A decimal up to 2.4703282292062327e-324, half the least
\* double, is 0.0.  (coef has ten digits at most.)
lead9(coef) ==
    IF digit_count(coef) <= 9 THEN coef * 10^(9 - digit_count(coef))
    ELSE coef \div 10^(digit_count(coef) - 9)

overflows(f) ==
    LET adjusted == f.exp + digit_count(f.coef) - 1
    IN  \/ adjusted > 308
        \/ adjusted = 308 /\ lead9(f.coef) > 179769313
        \/ adjusted = 308 /\ lead9(f.coef) = 179769313 /\ digit_count(f.coef) = 10
               /\ f.coef % 10 >= 5

underflows(f) ==
    LET adjusted == f.exp + digit_count(f.coef) - 1
    IN  \/ adjusted < 0 - 324
        \/ adjusted = 0 - 324 /\ lead9(f.coef) <= 247032822

\* float(v) of a string: white space around the number is dropped; single
\* underscores may stand between digits; a sign may lead; the number is inf,
\* infinity or nan in any case, or digits with at most one point and an
\* exponent; a decimal digit outside ASCII stands for the ASCII digit of its
\* value
float_str(v) ==
    LET inked == {i \in 1..Len(v) : v[i] \notin STRIPPED}
        lo == CHOOSE i \in inked : \A j \in inked : i <= j
        hi == CHOOSE i \in inked : \A j \in inked : i >= j
        body == SubSeq(v, lo, hi)
        grouped == \A i \in 1..Len(body) :
                       body[i] = "_" => /\ i > 1 /\ i < Len(body)
                                        /\ IsDigit(body[i - 1])
                                        /\ IsDigit(body[i + 1])
        plain == SelectSeq(body, LAMBDA c : c # "_")
        signed == plain # <<>> /\ plain[1] \in {"+", "-"}
        sign == IF signed /\ plain[1] = "-" THEN 0 - 1 ELSE 1
        number == IF signed THEN Tail(plain) ELSE plain
        word == IF \A i \in 1..Len(number) : number[i] \in DOMAIN LOWER
                THEN [i \in 1..Len(number) |-> LOWER[number[i]]] ELSE <<"?">>
        mark == find_first(number, {"e", "E"})
        mantissa == SubSeq(number, 1, mark - 1)
        exponent == SubSeq(number, mark + 1, Len(number))
        esigned == exponent # <<>> /\ exponent[1] \in {"+", "-"}
        edigits == IF esigned THEN Tail(exponent) ELSE exponent
        point == find_first(mantissa, {"."})
        whole == SubSeq(mantissa, 1, point - 1)
        frac == SubSeq(mantissa, point + 1, Len(mantissa))
        wellformed == /\ IsDigits(whole) /\ IsDigits(frac)
                      /\ Len(whole) + Len(frac) > 0
                      /\ mark <= Len(number) => (edigits # <<>> /\ IsDigits(edigits))
        evalue == IF mark > Len(number) THEN 0
                  ELSE IF esigned /\ exponent[1] = "-" THEN 0 - dec_value(edigits)
                  ELSE dec_value(edigits)
        value == normal(sign, dec_value(whole \o frac), evalue - Len(frac))
    IN  IF inked = {} THEN Raise("ValueError")
        ELSE IF ~grouped THEN Raise("ValueError")
        ELSE IF word \in {<<"i", "n", "f">>, <<"i", "n", "f", "i", "n", "i", "t", "y">>}
        THEN Return(Infinity(sign))
        ELSE IF word = <<"n", "a", "n">> THEN Return(NaN)
        ELSE IF ~wellformed THEN Raise("ValueError")
        ELSE IF value.coef = 0 THEN Return(value)
        ELSE IF overflows(value) THEN Return(Infinity(sign))
        ELSE IF underflows(value) THEN Return(Finite(sign, 0, 0))
        ELSE Return(value)

\* the floor of a finite float times 100: the float as the engine takes it
hundredths(f) ==
    IF f.exp >= 0 - 2 THEN f.sign * f.coef * 10^(f.exp + 2)
    ELSE (f.sign * f.coef) \div 10^(0 - f.exp - 2)

\* the values of a document
StrValue(chars) == [type |-> "str", val |-> chars]

IntValue(decimal_value) == [type |-> "int", val |-> decimal_value]

FloatValue(float_value) == [type |-> "float", val |-> float_value]

BoolValue(truth) == [type |-> "bool", val |-> truth]

NoneValue == [type |-> "NoneType", val |-> None]

ListValue(items) == [type |-> "list", val |-> items]

DictValue(items) == [type |-> "dict", val |-> items]

\* the bytes of a !!binary node: a byte below 0x80 is written as the
\* character of ASCII it encodes, a byte from 0x80 on as its value
BytesValue(bytes) == [type |-> "bytes", val |-> bytes]

\* the datetime.date of a timestamp node: year, month and day
DateValue(ymd) == [type |-> "datetime.date", val |-> ymd]

UNKNOWN_MANUFACTURER == StrValue(<<"u", "n", "k", "n", "o", "w", "n">>)

UNKNOWN_FIRMWARE == StrValue(<<"0", ".", "0", ".", "0", ".", "0">>)

\* the revision of a report that lacks one: 0.0
UNKNOWN_REVISION == Finite(1, 0, 0)

\* the revision the engine takes when the caller passes none
DEFAULT_REVISION == 138

\* float(v) of bytes: the bytes are read as the text of the number.  The
\* white space dropped is that of ASCII; a byte from 0x80 on is neither
\* white space nor a part of a number
float_bytes(v) ==
    IF \E i \in 1..Len(v) : ~isascii(v[i]) THEN Raise("ValueError") ELSE float_str(v)

\* float(value): of a str or of bytes the number of the text, of a float,
\* a bool or an int the float of the number, of any other value a TypeError
float(value) ==
    IF value.type = "str" THEN float_str(value.val)
    ELSE IF value.type = "bytes" THEN float_bytes(value.val)
    ELSE IF value.type = "float" THEN Return(value.val)
    ELSE IF value.type = "bool" THEN Return(Finite(1, IF value.val THEN 1 ELSE 0, 0))
    ELSE IF value.type # "int" THEN Raise("TypeError")
    ELSE IF overflows(value.val) THEN Raise("OverflowError")
    ELSE Return(value.val)

\* value[key] with a str for the key: of a dict the item or a KeyError; a
\* str, bytes, a list and a scalar take no str for an index
getitem(value, key) ==
    IF value.type # "dict" THEN Raise("TypeError")
    ELSE IF key \notin DOMAIN value.val THEN Raise("KeyError")
    ELSE Return(value.val[key])

\* found[key] unless the evaluation has raised
then_getitem(found, key) == IF found.tag = "raise" THEN found ELSE getitem(found.val, key)

\* float(found) unless the evaluation has raised
then_float(found) == IF found.tag = "raise" THEN found ELSE float(found.val)

\* except KeyError: revision = 0.0
except_KeyError(revision) ==
    IF revision.tag = "raise" /\ revision.val = "KeyError" THEN Return(UNKNOWN_REVISION)
    ELSE revision

\* results[key] if key in results else default, of a dict
get_or(results, key, default) ==
    IF key \in DOMAIN results.val THEN results.val[key] ELSE default

device_info(results, revision) ==
    IF revision.tag = "raise" THEN revision
    ELSE Return([manufacturer |-> get_or(results, "Manufacturer", UNKNOWN_MANUFACTURER),
                 firmware |-> get_or(results, "Firmware version", UNKNOWN_FIRMWARE),
                 revision |-> revision.val])

\* the body of the with statement on the document safe_load returned.  In a
\* document that is no dict the tests of membership raise a TypeError or
\* find nothing, and the subscript of the revision raises a TypeError.
loaded_info(results) ==
    IF results.type # "dict" THEN Raise("TypeError")
    ELSE device_info(results,
             except_KeyError(then_float(then_getitem(then_getitem(
                 getitem(results, "Capability_properties-fixed"),
                 "TPM2_PT_REVISION"), "value"))))

\* get_device_info(results_path): open raises for a missing file, safe_load
\* raises for a file that is no YAML
get_device_info(file) ==
    IF ~file.exists THEN Raise("FileNotFoundError")
    ELSE IF file.document.tag = "raise" THEN file.document
    ELSE loaded_info(file.document.val)

(***************************************************************************)
(* compute_nonce.  A revision is the float times 100 (1.36 is 136).        *)
(***************************************************************************)
\* extract_ecdsa_nonce multiplying by s where the inverse of s belongs
extract_ecdsa_nonce_by_s(n, r, s, x, e) ==
    LET ei == int16(e)
    IN  IF ei.tag = "raise" THEN ei
        ELSE LET s_inv == pow_inv(s, n)
             IN  IF s_inv.tag = "raise" THEN s_inv
                 ELSE Return(((s * (ei.val + ((r * x) % n))) % n) % n)

\* extract_ecdsa_nonce with the private scalar left out of e + r*x
extract_ecdsa_nonce_no_x(n, r, s, x, e) ==
    LET ei == int16(e)
    IN  IF ei.tag = "raise" THEN ei
        ELSE LET s_inv == pow_inv(s, n)
             IN  IF s_inv.tag = "raise" THEN s_inv
                 ELSE Return(((s_inv.val * (ei.val + (r % n))) % n) % n)

extract_ecdsa_nonce(n, r, s, x, e) ==
    LET ei == int16(e)
    IN  IF ei.tag = "raise" THEN ei
        ELSE LET s_inv == pow_inv(s, n)
             IN  IF s_inv.tag = "raise" THEN s_inv
                 ELSE Return(((s_inv.val * (ei.val + ((r * x) % n))) % n) % n)

\* extract_ecschnorr_nonce without the final reduction
extract_ecschnorr_nonce_unreduced(n, r, s, x, e) == Return(s - ((r * x) % n))

extract_ecschnorr_nonce(n, r, s, x, e) == Return((s - ((r * x) % n)) % n)

\* extract_sm2_nonce without the s*x term
extract_sm2_nonce_no_sx(n, r, s, x, e) == Return((s + ((r * x) % n)) % n)

extract_sm2_nonce(n, r, s, x, e) == Return((s + ((s * x) % n) + ((r * x) % n)) % n)

\* extract_ecdaa_nonce hashing the digest before r
extract_ecdaa_nonce_digest_first(n, r, s, x, e) ==
    LET rb == int_to_bytes(r, log2_bytes(n))
    IN  IF rb.tag = "raise" THEN rb
        ELSE LET eb == unhexlify(e)
             IN  IF eb.tag = "raise" THEN eb
                 ELSE LET hasher == sha256_update(sha256_update(sha256_new, eb.val), rb.val)
                          h == int_from_bytes_mod(sha256_digest(hasher), n)
                      IN  Return((s - h * x) % n)

extract_ecdaa_nonce(n, r, s, x, e) ==
    LET rb == int_to_bytes(r, log2_bytes(n))
    IN  IF rb.tag = "raise" THEN rb
        ELSE LET eb == unhexlify(e)
             IN  IF eb.tag = "raise" THEN eb
                 ELSE LET hasher == sha256_update(sha256_update(sha256_new, rb.val), eb.val)
                          h == int_from_bytes_mod(sha256_digest(hasher), n)
                      IN  Return((s - h * x) % n)

\* the dispatch table with revision 1.36 itself on the ECSCHNORR formula
nonce_dispatch_inclusive(algorithm, revision, n, r, s, x, e) ==
    CASE algorithm = "ECDSA" -> extract_ecdsa_nonce(n, r, s, x, e)
      [] algorithm = "ECSCHNORR" -> extract_ecschnorr_nonce(n, r, s, x, e)
      [] algorithm = "SM2" -> extract_sm2_nonce(n, r, s, x, e)
      [] algorithm = "ECDAA" ->
            IF revision <= 136 THEN extract_ecschnorr_nonce(n, r, s, x, e)
            ELSE extract_ecdaa_nonce(n, r, s, x, e)

\* the dispatch table of compute_nonce, applied
nonce_dispatch(algorithm, revision, n, r, s, x, e) ==
    CASE algorithm = "ECDSA" -> extract_ecdsa_nonce(n, r, s, x, e)
      [] algorithm = "ECSCHNORR" -> extract_ecschnorr_nonce(n, r, s, x, e)
      [] algorithm = "SM2" -> extract_sm2_nonce(n, r, s, x, e)
      [] algorithm = "ECDAA" ->
            IF revision < 136 THEN extract_ecschnorr_nonce(n, r, s, x, e)
            ELSE extract_ecdaa_nonce(n, r, s, x, e)

\* encode_nonce on the bytes the order needs instead of the curve's length
encode_nonce_order_length(nonce, curve) ==
    LET b == int_to_bytes(nonce, log2_bytes(CURVE_ORDER[curve]))
    IN  IF b.tag = "raise" THEN b ELSE Return(hexlify(b.val))

\* the fixed-width hex encoding that ends compute_nonce
encode_nonce(nonce, curve) ==
    LET b == int_to_bytes(nonce, curve_bytes(curve))
    IN  IF b.tag = "raise" THEN b ELSE Return(hexlify(b.val))

compute_nonce(r, s, x, e, algorithm, curve, revision) ==
    IF algorithm \notin AlgNames THEN Raise("KeyError: algorithm")
    ELSE IF curve \notin CurveNames THEN Raise("KeyError: curve")
    ELSE LET nonce == nonce_dispatch(algorithm, revision, CURVE_ORDER[curve], r, s, x, e)
         IN  IF nonce.tag = "raise" THEN nonce
             ELSE encode_nonce(nonce.val, curve)

(***************************************************************************)
(* verify_signature.  pk is a Point of the selected curve; nonce_point is  *)
(* None or a pair of coordinates.                                          *)
(***************************************************************************)
\* reconstruct_pk without the cross-check against the private scalar
reconstruct_pk_unchecked(pk, curve, sk) ==
    IF curve \notin CurveNames THEN Raise("KeyError: curve")
    ELSE Point(CURVE_PARAMS[curve], pk[1], pk[2])

\* sk is None or <<scalar>>
reconstruct_pk(pk, curve, sk) ==
    IF curve \notin CurveNames THEN Raise("KeyError: curve")
    ELSE LET cv == CURVE_PARAMS[curve]
             point == Point(cv, pk[1], pk[2])
         IN  IF point.tag = "raise" THEN point
             ELSE IF sk # None /\ point_mul(cv, sk[1], GENERATORS[curve]) # point.val
             THEN Raise("AssertionError")
             ELSE point

\* verify_ecdsa parsing the whole digest
verify_ecdsa_untruncated(r, s, pk, e, curve, n_bytes, n, g) ==
    LET cv == CURVE_PARAMS[curve]
        s_inv == pow_inv(s, n)
    IN  IF s_inv.tag = "raise" THEN s_inv
        ELSE LET ei == int16(e)
             IN  IF ei.tag = "raise" THEN ei
                 ELSE LET nonce_point ==
                              point_add(cv, point_mul(cv, s_inv.val * ei.val, g),
                                            point_mul(cv, r * s_inv.val, pk))
                      IN  Return(nonce_point.x = r)

\* verify_ecdsa comparing the x-coordinate and r modulo the order
verify_ecdsa_reduced(r, s, pk, e, curve, n_bytes, n, g) ==
    LET cv == CURVE_PARAMS[curve]
        s_inv == pow_inv(s, n)
    IN  IF s_inv.tag = "raise" THEN s_inv
        ELSE LET ei == int16(SubSeq(e, 1, IF Len(e) < n_bytes * 2 THEN Len(e) ELSE n_bytes * 2))
             IN  IF ei.tag = "raise" THEN ei
                 ELSE LET nonce_point ==
                              point_add(cv, point_mul(cv, s_inv.val * ei.val, g),
                                            point_mul(cv, r * s_inv.val, pk))
                      IN  Return(nonce_point.x % n = r % n)

verify_ecdsa(r, s, pk, e, curve, n_bytes, n, g) ==
    LET cv == CURVE_PARAMS[curve]
        s_inv == pow_inv(s, n)
    IN  IF s_inv.tag = "raise" THEN s_inv
        ELSE LET ei == int16(SubSeq(e, 1, IF Len(e) < n_bytes * 2 THEN Len(e) ELSE n_bytes * 2))
             IN  IF ei.tag = "raise" THEN ei
                 ELSE LET nonce_point ==
                              point_add(cv, point_mul(cv, s_inv.val * ei.val, g),
                                            point_mul(cv, r * s_inv.val, pk))
                      IN  Return(nonce_point.x = r)

\* while x_coord[0] == 0: x_coord = x_coord[1:]
strip_zero_bytes(x_coord) ==
    IF \A i \in 1..Len(x_coord) : x_coord[i] = 0
    THEN Raise("IndexError: index out of range")
    ELSE LET first == CHOOSE i \in 1..Len(x_coord) :
                          x_coord[i] # 0 /\ \A j \in 1..(i - 1) : x_coord[j] = 0
         IN  Return(SubSeq(x_coord, first, Len(x_coord)))

\* the message hashed by verify_ecschnorr: the order flips at revision 1.33
ecschnorr_message(x_coord, e, revision) ==
    LET eb == unhexlify(e)
    IN  IF eb.tag = "raise" THEN eb
        ELSE IF revision >= 133
        THEN Return(sha256_update(sha256_update(sha256_new, x_coord), eb.val))
        ELSE LET stripped == strip_zero_bytes(x_coord)
             IN  IF stripped.tag = "raise" THEN stripped
                 ELSE Return(sha256_update(sha256_update(sha256_new, eb.val), stripped.val))

verify_ecschnorr(r, s, pk, e, curve, revision, n_bytes, n, g) ==
    LET cv == CURVE_PARAMS[curve]
        nonce_point == point_sub(cv, point_mul(cv, s, g), point_mul(cv, r, pk))
        x_coord == int_to_bytes(nonce_point.x, curve_bytes(curve))
    IN  IF x_coord.tag = "raise" THEN x_coord
        ELSE LET hasher == ecschnorr_message(x_coord.val, e, revision)
             IN  IF hasher.tag = "raise" THEN hasher
                 ELSE LET digest == sha256_digest(hasher.val)
                          r_prime == IF revision >= 133 /\ Len(digest) > n_bytes
                                     THEN SubSeq(digest, 1, n_bytes)
                                     ELSE digest
                      IN  Return(r = int_from_bytes_mod(r_prime, n))

\* a verify_sm2 that rejects
verify_sm2_rejecting == Return(FALSE)

verify_sm2 == Return(TRUE)

\* the multiplier of verify_ecdaa with t = r at every revision
ecdaa_t_always_r(r, e, revision, n) == Return(r)

\* the multiplier t of verify_ecdaa
ecdaa_t(r, e, revision, n) ==
    IF revision >= 136
    THEN LET rb == int_to_bytes(r, log2_bytes(n))
         IN  IF rb.tag = "raise" THEN rb
             ELSE LET eb == unhexlify(e)
                  IN  IF eb.tag = "raise" THEN eb
                      ELSE Return(int_from_bytes_mod(
                               sha256_digest(sha256_update(sha256_update(sha256_new, rb.val), eb.val)), n))
    ELSE Return(r)

\* verify_ecdaa reporting invalid where no commitment is supplied
verify_ecdaa_fail_closed(r, s, pk, e, curve, revision, nonce_point, n, g) ==
    IF nonce_point = None THEN Return(FALSE)
    ELSE LET cv == CURVE_PARAMS[curve]
             t == ecdaa_t(r, e, revision, n)
         IN  IF t.tag = "raise" THEN t
             ELSE LET commitment == Point(cv, nonce_point[1], nonce_point[2])
                  IN  IF commitment.tag = "raise" THEN commitment
                      ELSE Return(point_sub(cv, point_mul(cv, s, g), point_mul(cv, t.val, pk))
                                  = commitment.val)

verify_ecdaa(r, s, pk, e, curve, revision, nonce_point, n, g) ==
    IF nonce_point = None THEN Return(TRUE)
    ELSE LET cv == CURVE_PARAMS[curve]
             t == ecdaa_t(r, e, revision, n)
         IN  IF t.tag = "raise" THEN t
             ELSE LET commitment == Point(cv, nonce_point[1], nonce_point[2])
                  IN  IF commitment.tag = "raise" THEN commitment
                      ELSE Return(point_sub(cv, point_mul(cv, s, g), point_mul(cv, t.val, pk))
                                  = commitment.val)

\* the text verify_ecdaa prints when there is no nonce point
NO_NONCE_POINT == "No nonce point provided, cannot verify ECDAA signature"

\* print(text) makes two writes to sys.stdout: the text, then the line end
print(text) == <<text, "\n">>

\* the writes verify_ecdaa makes to standard output
verify_ecdaa_printed(nonce_point) ==
    IF nonce_point = None THEN print(NO_NONCE_POINT) ELSE <<>>

\* the writes a call of verify_signature makes to standard output
\* verify_signature warning about a missing nonce point under every algorithm
verify_signature_printed_any(algorithm, curve, nonce_point) ==
    IF curve \in CurveNames THEN verify_ecdaa_printed(nonce_point) ELSE <<>>

verify_signature_printed(algorithm, curve, nonce_point) ==
    IF curve \in CurveNames /\ algorithm = "ECDAA"
    THEN verify_ecdaa_printed(nonce_point)
    ELSE <<>>

verify_signature(r, s, pk, e, algorithm, curve, revision, nonce_point) ==
    IF curve \notin CurveNames THEN Raise("KeyError: curve")
    ELSE IF algorithm \notin AlgNames THEN Raise("KeyError: algorithm")
    ELSE LET n_bytes == curve_bytes(curve)
             n == CURVE_ORDER[curve]
             g == GENERATORS[curve]
         IN  CASE algorithm = "ECDSA" -> verify_ecdsa(r, s, pk, e, curve, n_bytes, n, g)
               [] algorithm = "ECSCHNORR" ->
                      verify_ecschnorr(r, s, pk, e, curve, revision, n_bytes, n, g)
               [] algorithm = "SM2" -> verify_sm2
               [] algorithm = "ECDAA" ->
                      verify_ecdaa(r, s, pk, e, curve, revision, nonce_point, n, g)

(***************************************************************************)
(* The signer: the TPM that produced a measurement row.  It signs the      *)
(* digest with private scalar x and nonce k by the scheme's signing        *)
(* equation, in the hashing convention of its revision.  No signature      *)
(* comes out (accepted = FALSE) where the equation has no solution (SM2    *)
(* with 1 + x = 0 mod n) or gives the s = 0 that ECDSA signing discards.   *)
(***************************************************************************)
RECURSIVE minimal_bytes(_)
\* big-endian bytes of v without leading zero bytes (empty for 0)
minimal_bytes(v) == IF v = 0 THEN <<>> ELSE Append(minimal_bytes(v \div 256), v % 256)

tpm_hash(message, n) == int_from_bytes_mod(sha256_digest(message), n)

tpm_schnorr_r(kx, digest, curve, revision, n) ==
    IF revision >= 133
    THEN LET h == sha256_digest(be_bytes(kx, curve_bytes(curve)) \o hex_pairs(digest))
             width == IF curve_bytes(curve) < SHA256_LEN THEN curve_bytes(curve) ELSE SHA256_LEN
         IN  int_from_bytes_mod(SubSeq(h, 1, width), n)
    ELSE tpm_hash(hex_pairs(digest) \o minimal_bytes(kx), n)

tpm_sign(curve, algorithm, revision, x, k, digest, r0) ==
    LET cv == CURVE_PARAMS[curve]
        n == cv.q
        K == point_mul(cv, k, GENERATORS[curve])
        e == hex_value(digest)
    IN  CASE algorithm = "ECDSA" ->
                LET r == K.x % n
                    s == (field_inv(k, n) * (e + r * x)) % n
                IN  [accepted |-> s # 0, r |-> r, s |-> s, nonce_point |-> None]
          [] algorithm = "ECSCHNORR" ->
                LET r == tpm_schnorr_r(K.x, digest, curve, revision, n)
                IN  [accepted |-> TRUE, r |-> r, s |-> (k + r * x) % n, nonce_point |-> None]
          [] algorithm = "SM2" ->
                LET r == (e + K.x) % n
                    s == (field_inv(1 + x, n) * (k - r * x)) % n
                IN  [accepted |-> (1 + x) % n # 0, r |-> r, s |-> s, nonce_point |-> None]
          [] algorithm = "ECDAA" ->
                LET t == IF revision >= 136
                         THEN tpm_hash(be_bytes(r0, log2_bytes(n)) \o hex_pairs(digest), n)
                         ELSE r0
                IN  [accepted |-> TRUE, r |-> r0, s |-> (k + t * x) % n,
                     nonce_point |-> <<K.x, K.y>>]

(***************************************************************************)
(* Batch creation (tpm-perf/data.py, perf/driver/zip.py).  A resource name *)
(* and a line of text are sequences of characters.  A generator is kept as *)
(* its suspended state; what a generator does until it yields again is a   *)
(* sequence of events: a log record, a yielded measurement, or the         *)
(* exception that ends it.                                                 *)
(***************************************************************************)
A_ZIP == <<"a", ".", "z", "i", "p">>

B_ZIP == <<"b", ".", "z", "i", "p">>

C_ZIP == <<"c", ".", "z", "i", "p">>

LIST_TXT == <<"l", ".", "t", "x", "t">>

GONE_TXT == <<"g", ".", "t", "x", "t">>

STDIN == <<"-">>

NOTES_MD == <<"n", ".", "m", "d">>

OLD_FMT == <<"o", ".", "v", "1">>

\* the regular files of the file system
REGULAR_FILES == {A_ZIP, B_ZIP, LIST_TXT, NOTES_MD, OLD_FMT}

\* the lines of the text streams, as readline returns them
TEXT_LINES ==
    (LIST_TXT :> << A_ZIP \o <<"\n">>, C_ZIP \o <<"\n">>, B_ZIP \o <<" ", "\f", "\n">> >>) @@
    (STDIN :> << A_ZIP \o <<"\n">>, C_ZIP \o <<"\n">>, B_ZIP \o <<" ", "\f", "\n">> >>)

ends_with(s, suffix) ==
    Len(s) >= Len(suffix) /\ SubSeq(s, Len(s) - Len(suffix) + 1, Len(s)) = suffix

RECURSIVE rstrip(_)
rstrip(s) ==
    IF s # <<>> /\ s[Len(s)] \in WHITESPACE THEN rstrip(SubSeq(s, 1, Len(s) - 1)) ELSE s

Yield(m) == [ev |-> "yield", val |-> m]

Log(level, about) == [ev |-> "log", val |-> <<level, about>>]

RaiseEv(error) == [ev |-> "raise", val |-> error]

\* ZipMeasurement(resource)
ZipMeasurement(resource) == [cls |-> "ZipMeasurement", file_name |-> resource]

\* ZipMeasurementFactory.create
ZipMeasurementFactory_create(resource) ==
    IF ends_with(resource, <<".", "z", "i", "p">>) /\ resource \in REGULAR_FILES
    THEN <<Yield(ZipMeasurement(resource))>>
    ELSE <<>>

\* create of a factory for an older format, which it does not implement: a
\* failing record of the batch, of the kind create_all handles.  No factory
\* of the repository raises NotImplementedError from create
LegacyFactory_create(resource) ==
    IF ends_with(resource, <<".", "v", "1">>)
    THEN <<RaiseEv("NotImplementedError")>>
    ELSE <<>>

\* the events of the factories of a workshop, tried one by one: those up to
\* the first exception
RECURSIVE until_raise(_)
until_raise(events) ==
    IF events = <<>> THEN <<>>
    ELSE IF Head(events).ev = "raise" THEN <<Head(events)>>
    ELSE <<Head(events)>> \o until_raise(Tail(events))

\* MeasurementWorkshop.create over the factories (zip, legacy)
MeasurementWorkshop_create(resource) ==
    LET made == until_raise(ZipMeasurementFactory_create(resource)
                                \o LegacyFactory_create(resource))
        counter == Cardinality({i \in 1..Len(made) : made[i].ev = "yield"})
        created == [i \in 1..Len(made) |-> IF made[i].ev = "yield"
                                           THEN <<Log("debug", "Create"), made[i]>>
                                           ELSE <<made[i]>>]
        flat[i \in 0..Len(made)] == IF i = 0 THEN <<>> ELSE flat[i - 1] \o created[i]
    IN  IF made # <<>> /\ made[Len(made)].ev = "raise" THEN flat[Len(made)]
        ELSE IF counter = 0
        THEN flat[Len(made)] \o <<Log("error", "No factory accepted this source")>>
        ELSE flat[Len(made)]

\* the factory a FileAdapterFactory wraps
real_factory_create(resource) == MeasurementWorkshop_create(resource)

\* no generator
NoGen == [kind |-> "none", path |-> <<>>, pending |-> <<>>]

\* the generator _read_io(file) makes: nothing of it has run
read_io(path) == [kind |-> "read_io", path |-> path, pending |-> <<>>]

\* the generator real_factory.create(resource) makes
real_gen(resource) == [kind |-> "real", path |-> <<>>, pending |-> real_factory_create(resource)]

\* the text streams before anything is read: sys.stdin is open, a file is
\* not opened yet
FILES ==
    (STDIN :> [opened |-> TRUE, closed |-> FALSE, pos |-> 0]) @@
    (LIST_TXT :> [opened |-> FALSE, closed |-> FALSE, pos |-> 0])

\* FileAdapterFactory.create: the generator it returns and the text streams
\* after the call.  The with block of a '.txt' resource opens the file,
\* makes the generator and closes the file on the way out.
FileAdapterFactory_create(resource, fs) ==
    IF resource = STDIN THEN [tag |-> "return", val |-> read_io(STDIN), files |-> fs]
    ELSE IF ends_with(resource, <<".", "t", "x", "t">>)
    THEN IF resource \notin REGULAR_FILES
         THEN [tag |-> "raise", val |-> "FileNotFoundError", files |-> fs]
         ELSE [tag |-> "return", val |-> read_io(resource),
               files |-> [fs EXCEPT ![resource] = [opened |-> TRUE, closed |-> TRUE, pos |-> 0]]]
    ELSE [tag |-> "return", val |-> real_gen(resource), files |-> fs]

\* one next() on a generator FileAdapterFactory.create returned.  The
\* outcome: "yield" with the measurement, "stop", or "raise" with the
\* exception; with the generator, the text streams and the log afterwards.
RECURSIVE gen_next(_, _, _)
gen_next(g, fs, lg) ==
    IF g.pending # <<>>
    THEN LET event == Head(g.pending)
             rest == [g EXCEPT !.pending = Tail(g.pending)]
         IN  CASE event.ev = "yield" ->
                      [tag |-> "yield", val |-> event.val, gen |-> rest, files |-> fs, log |-> lg]
               [] event.ev = "log" -> gen_next(rest, fs, Append(lg, event.val))
               [] event.ev = "raise" ->
                      [tag |-> "raise", val |-> event.val, gen |-> NoGen, files |-> fs, log |-> lg]
    ELSE IF g.kind = "read_io"
    THEN LET file == fs[g.path]
         IN  IF file.closed
             THEN [tag |-> "raise", val |-> "ValueError: I/O operation on closed file.",
                   gen |-> NoGen, files |-> fs, log |-> lg]
             ELSE IF file.pos = Len(TEXT_LINES[g.path])
             THEN [tag |-> "stop", val |-> None, gen |-> NoGen, files |-> fs, log |-> lg]
             ELSE LET line == TEXT_LINES[g.path][file.pos + 1]
                  IN  gen_next([g EXCEPT !.pending = real_factory_create(rstrip(line))],
                               [fs EXCEPT ![g.path].pos = file.pos + 1], lg)
    ELSE [tag |-> "stop", val |-> None, gen |-> NoGen, files |-> fs, log |-> lg]

\* the generator of create_all before its first next()
Created == [status |-> "suspended", index |-> 0, inner |-> NoGen, error |-> None]

\* no call of create_all
NotCreated == [status |-> "none", index |-> 0, inner |-> NoGen, error |-> None]

\* one next() on the generator of create_all(rs): runs to the next yield,
\* to the end of the resources, or to an exception that is not caught
RECURSIVE create_all_next(_, _, _, _)
create_all_next(rs, g, fs, lg) ==
    LET failed(error, fs2, lg2) ==
            IF error = "NotImplementedError"
            THEN create_all_next(rs, [g EXCEPT !.index = g.index + 1, !.inner = NoGen],
                                 fs2, Append(lg2, <<"error", error>>))
            ELSE [gen |-> [g EXCEPT !.status = "failed", !.inner = NoGen, !.error = <<error>>],
                  files |-> fs2, log |-> lg2, yielded |-> <<>>]
    IN  IF g.inner = NoGen
        THEN IF g.index = Len(rs)
             THEN [gen |-> [g EXCEPT !.status = "finished"], files |-> fs, log |-> lg,
                   yielded |-> <<>>]
             ELSE LET resource == rs[g.index + 1]
                      lg1 == Append(lg, <<"debug", "Create all: Making">>)
                      made == FileAdapterFactory_create(resource, fs)
                  IN  IF made.tag = "raise" THEN failed(made.val, made.files, lg1)
                      ELSE create_all_next(rs, [g EXCEPT !.inner = made.val], made.files, lg1)
        ELSE LET step == gen_next(g.inner, fs, lg)
             IN  CASE step.tag = "yield" ->
                          [gen |-> [g EXCEPT !.inner = step.gen], files |-> step.files,
                           log |-> step.log, yielded |-> <<step.val>>]
                   [] step.tag = "stop" ->
                          create_all_next(rs, [g EXCEPT !.index = g.index + 1, !.inner = NoGen],
                                          step.files, step.log)
                   [] step.tag = "raise" -> failed(step.val, step.files, step.log)

(***************************************************************************)
(* The database handle (perf/driver/db/__init__.py, cache.py, env.py).     *)
(* An entity is a record with its class and oid, the identity of the       *)
(* object, which is also the id of its row once it is flushed; a Device    *)
(* and an Algorithm carry their key (hostname or name), a Measurement its  *)
(* source, device, stamp and TPM columns, a DataPoint its device,          *)
(* measurement, algorithm and value.  A reference is the oid in a          *)
(* one-element tuple, or None.  The stamp of a measurement is carried as   *)
(* the number of its month.  The firmware of a Measurement is a number     *)
(* with its type: the object Handle.measurement makes keeps the int of the *)
(* TPM data, the row holds a numeric, and an object that is loaded from    *)
(* the row has a Decimal.                                                  *)
(*                                                                         *)
(* The session holds the pending entities (new), the rows of the database  *)
(* as the session's transaction sees them (rows), of which the first       *)
(* `committed` are committed, the entities passed to session.add (added),  *)
(* the number of entities made so far (made), and whether a flush has      *)
(* failed: the transaction is then rolled back and every later statement   *)
(* of the session raises PendingRollbackError, as the code never calls     *)
(* rollback.                                                               *)
(*                                                                         *)
(* The identity map of the session is carried by what a read of an         *)
(* attribute does.  loaded holds the Devices and Measurements whose        *)
(* columns are loaded: a read of them makes no statement.  Of a            *)
(* Measurement in partial the id and device_id are loaded and the other    *)
(* columns expired, as the select of DBMeasurementFactory.execute leaves   *)
(* it.  A Measurement in unset was made without TPM data and not loaded    *)
(* since: its TPM columns read as None without a statement.  Any other     *)
(* object of the session is expired: the first read of an attribute loads  *)
(* the row with a select, which flushes the session before.  A commit and  *)
(* a rollback expire every object.  held are the Measurements of the       *)
(* session the caller has a DBMeasurement or an entity of.  backref holds  *)
(* the Measurements whose device was set in memory when they were added to *)
(* device.measurements, each with the hostname of that Device; a commit    *)
(* and a rollback expire the reference.                                    *)
(***************************************************************************)
HOSTNAMES == {"host-a", "host-b"}

ALGORITHM_NAMES == {"Perf_RSA", "Perf_ECDSA"}

SOURCES == {"a.zip", "b.zip"}

Entity(cls, key, oid) == [cls |-> cls, key |-> key, oid |-> oid]

\* a Decimal is coef * 10^exp
Decimal(coef, exp) == [type |-> "Decimal", coef |-> coef, exp |-> exp]

\* an int as the value of the firmware attribute; it has the fields of a
\* Decimal, so that the two can be told apart by their type
Integer(n) == [type |-> "int", coef |-> n, exp |-> 0]

\* data.Measurement.TPMData
TPMData(platform, vendor, vendor_string, firmware) ==
    [cls |-> "TPMData", platform |-> platform, vendor |-> vendor,
     vendor_string |-> vendor_string, firmware |-> firmware]

\* Measurement(stamp=, source=, platform=, vendor=, vendor_string=,
\* firmware=) added to device.measurements; without TPM data the four
\* columns are NULL.  The firmware attribute of the object is the int of
\* tpm_data.firmware.
MeasurementEntity(device, stamp, source, tpm_data, oid) ==
    [cls |-> "Measurement", key |-> source, oid |-> oid, device |-> device.oid,
     stamp |-> stamp,
     platform |-> IF tpm_data = None THEN None ELSE tpm_data[1].platform,
     vendor |-> IF tpm_data = None THEN None ELSE tpm_data[1].vendor,
     vendor_string |-> IF tpm_data = None THEN None ELSE tpm_data[1].vendor_string,
     firmware |-> IF tpm_data = None \/ tpm_data[1].firmware = None THEN None
                  ELSE <<Integer(tpm_data[1].firmware[1])>>]

\* the row an entity is inserted as: the firmware column is Numeric(20), of
\* which a select returns a Decimal
inserted(e) ==
    IF e.cls = "Measurement" /\ e.firmware # None
    THEN [e EXCEPT !.firmware = <<Decimal(e.firmware[1].coef, 0)>>]
    ELSE e

\* DataPoint(device=device, algorithm=algorithm, value=v); the measurement
\* is set when the point is added to measurement.data
DataPoint(device, algorithm, value, oid) ==
    [cls |-> "DataPoint", oid |-> oid, device |-> device.oid, algorithm |-> algorithm.oid,
     measurement |-> None, value |-> value]

\* the keys of the cached statements: select(Device) by hostname and
\* select(Algorithm) by name, with their parameters
CacheKeys ==
    {<<"Device", h>> : h \in HOSTNAMES} \cup {<<"Algorithm", a>> : a \in ALGORITHM_NAMES}

\* an entry of a dict: missing, or present with a value
Missing == [present |-> FALSE, value |-> <<>>]

Present(v) == [present |-> TRUE, value |-> v]

\* dogpile.cache.api.NO_VALUE: the region has no value of the key, or one
\* older than expiration_time
NO_VALUE == [present |-> FALSE, value |-> <<>>, stored |-> 0]

\* a value of the region: the frozen result and the rank of the time it was
\* stored at among the values of the region, 1 being the oldest
Cached(frozen, rank) == [present |-> TRUE, value |-> frozen, stored |-> rank]

EmptySession ==
    [new |-> <<>>, rows |-> <<>>, committed |-> 0, added |-> <<>>, made |-> 0,
     failed |-> FALSE, loaded |-> {}, partial |-> {}, unset |-> {}, held |-> {},
     backref |-> {}]

EmptyCache == [k \in CacheKeys |-> NO_VALUE]

\* CacheRegion.delete(key), and a value that got older than
\* expiration_time: the value is gone, the younger ones move up a rank
deleted(c, key) ==
    [k \in CacheKeys |->
        IF k = key \/ ~c[k].present THEN NO_VALUE
        ELSE IF c[key].present /\ c[k].stored > c[key].stored
        THEN Cached(c[k].value, c[k].stored - 1)
        ELSE c[k]]

\* the unique columns: Algorithm.name and Measurement.source;
\* Device.hostname is not unique
UNIQUE_KEY ==
    [cls \in {"Device", "Algorithm", "Measurement", "DataPoint"} |->
        cls \in {"Algorithm", "Measurement"}]

\* the foreign keys of an entity: the class and the id it refers to
ForeignKeys(e) ==
    CASE e.cls = "Measurement" -> {<<"Device", e.device>>}
      [] e.cls = "DataPoint" ->
             {<<"Device", e.device>>, <<"Algorithm", e.algorithm>>}
                 \cup {<<"Measurement", e.measurement[i]>> : i \in DOMAIN e.measurement}
      [] OTHER -> {}

\* Session.flush: the pending entities become rows; the attributes of the
\* objects stay as they were set.  A second Algorithm of a name or
\* Measurement of a source violates the unique index, a reference to a row
\* that is not there (an entity served by the cache whose row was rolled
\* back) the foreign key: IntegrityError
flush(s) ==
    LET all == s.rows \o s.new
        pending == (Len(s.rows) + 1)..Len(all)
        duplicate ==
            \E j \in pending : \E i \in 1..(j - 1) :
                /\ all[i].cls = all[j].cls
                /\ UNIQUE_KEY[all[j].cls]
                /\ all[i].key = all[j].key
        dangling ==
            \E j \in pending : \E fk \in ForeignKeys(all[j]) :
                ~\E i \in 1..Len(all) : all[i].cls = fk[1] /\ all[i].oid = fk[2]
    IN  IF duplicate \/ dangling THEN Raise("IntegrityError")
        ELSE Return([s EXCEPT !.new = <<>>,
                              !.rows = @ \o [i \in 1..Len(s.new) |-> inserted(s.new[i])]])

\* the ids of the rows that are committed
committed_ids(s) == {s.rows[i].oid : i \in 1..s.committed}

\* the transaction is rolled back: the pending entities are expunged and
\* the rows that were not committed are gone, with their objects; the
\* objects that stay are expired
rollback(s) ==
    [s EXCEPT !.new = <<>>, !.rows = SubSeq(s.rows, 1, s.committed),
              !.loaded = {}, !.partial = {}, !.unset = {}, !.backref = {},
              !.held = @ \cap committed_ids(s)]

\* the session after a flush: a failed flush rolls the transaction back and
\* leaves the session failed
autoflush(s, flushed) ==
    IF flushed.tag = "raise"
    THEN [tag |-> "raise", val |-> flushed.val,
          session |-> [rollback(s) EXCEPT !.failed = TRUE]]
    ELSE [tag |-> "return", val |-> None, session |-> flushed.val]

\* what Session.execute and Session.scalar do before the statement runs: a
\* session whose flush has failed raises; an ORM-enabled statement
\* autoflushes, a textual or Core statement does not
execute(s, orm_enabled) ==
    IF s.failed THEN [tag |-> "raise", val |-> "PendingRollbackError", session |-> s]
    ELSE IF ~orm_enabled THEN [tag |-> "return", val |-> None, session |-> s]
    ELSE autoflush(s, flush(s))

\* the session is committed when its flush went through: every object is
\* expired (expire_on_commit)
committed(done) ==
    IF done.tag = "raise" THEN done
    ELSE [done EXCEPT !.session.committed = Len(done.session.rows),
                      !.session.loaded = {}, !.session.partial = {},
                      !.session.unset = {}, !.session.backref = {}]

\* Database.Handle.commit: session.commit() flushes and commits; a failed
\* flush rolls back and leaves the session failed
Handle_commit(s) ==
    IF s.failed THEN [tag |-> "raise", val |-> "PendingRollbackError", session |-> s]
    ELSE committed(autoflush(s, flush(s)))

\* session.close() in the finally of Database.connect, and the Session of
\* the next connect: what was not committed is rolled back; the entities
\* made keep their numbers, and the objects of the closed session are left
\* behind
Session_close(s) ==
    [rollback(s) EXCEPT !.added = <<>>, !.failed = FALSE, !.held = {}]

\* the rows a select by key returns, in the order of their insertion
select_where(s, cls, key) ==
    SelectSeq(s.rows, LAMBDA e : e.cls = cls /\ e.key = key)

\* the frozen result is stored under the key, as the youngest value of the
\* region, and returned
freeze(s, c, cls, key, frozen) ==
    [tag |-> "return", val |-> frozen, session |-> s,
     cache |-> [c EXCEPT ![<<cls, key>>] =
                   Cached(frozen, Cardinality({k \in CacheKeys : c[k].present}) + 1)]]

\* createfunc: the statement is run (autoflush, then select) and its result
\* frozen
createfunc(c, cls, key, done) ==
    IF done.tag = "raise"
    THEN [tag |-> "raise", val |-> done.val, session |-> done.session, cache |-> c]
    ELSE freeze(done.session, c, cls, key, select_where(done.session, cls, key))

\* region.get_or_create(key, createfunc) returns the frozen result cached
\* under the key, without a statement; when there is none it runs the
\* statement, stores the frozen result and returns it
get_or_create(s, c, cls, key) ==
    IF c[<<cls, key>>] # NO_VALUE
    THEN [tag |-> "return", val |-> c[<<cls, key>>].value, session |-> s, cache |-> c]
    ELSE createfunc(c, cls, key, execute(s, TRUE))

\* loading.merge_frozen_result(session, statement, cached_value, load=False):
\* the entities of the frozen result are put into the identity map as they
\* are, without a statement
merge_frozen_result(result) ==
    IF result.tag = "raise" THEN result
    ELSE [result EXCEPT !.session.loaded =
             @ \cup {result.val[i] : i \in 1..Len(result.val)}]

\* ORMCache._do_orm_execute for a statement with FromCache("default")
do_orm_execute(s, c, cls, key) == merge_frozen_result(get_or_create(s, c, cls, key))

\* session.add(entity)
add(result, entity) ==
    [result EXCEPT !.val = entity,
                   !.session.new = Append(@, entity),
                   !.session.added = Append(@, entity),
                   !.session.made = @ + 1,
                   !.session.loaded = @ \cup {entity}]

\* the first entity of the result, or a new one added to the session
first_or_new(result, cls, key) ==
    IF result.tag = "raise" THEN result
    ELSE IF result.val # <<>> THEN [result EXCEPT !.val = result.val[1]]
    ELSE add(result, Entity(cls, key, result.session.made + 1))

\* the body shared by Database.Handle.machine and Database.Handle.algorithm
first_or_add(s, c, cls, key) == first_or_new(do_orm_execute(s, c, cls, key), cls, key)

Handle_machine(s, c, hostname) == first_or_add(s, c, "Device", hostname)

Handle_algorithm(s, c, name) == first_or_add(s, c, "Algorithm", name)

\* device.id as it is read when the statement is built: None while the
\* device is pending
id_of(s, entity) ==
    IF \E i \in 1..Len(s.new) : s.new[i].oid = entity.oid THEN None ELSE <<entity.oid>>

\* the ids of the objects whose columns are loaded
identities(s) == {e.oid : e \in s.loaded}

\* whether the session sees a row of the class with the id
has_row(s, cls, oid) == \E i \in 1..Len(s.rows) : s.rows[i].cls = cls /\ s.rows[i].oid = oid

\* the row of a class with the id
row_of(s, cls, oid) ==
    s.rows[CHOOSE i \in 1..Len(s.rows) : s.rows[i].cls = cls /\ s.rows[i].oid = oid]

\* the object of an entity as the session has it: the one whose columns are
\* loaded, with the attributes it was made or loaded with, else the entity
\* as its row holds it
object_of(s, entity) ==
    IF \E e \in s.loaded : e.cls = entity.cls /\ e.oid = entity.oid
    THEN CHOOSE e \in s.loaded : e.cls = entity.cls /\ e.oid = entity.oid
    ELSE entity

\* the select that loads the expired attributes of an object has run: its
\* columns are loaded from the row; ObjectDeletedError when the row is gone
load_expired(done, entity) ==
    IF done.tag = "raise" THEN done
    ELSE IF ~has_row(done.session, entity.cls, entity.oid)
    THEN [done EXCEPT !.tag = "raise", !.val = "ObjectDeletedError"]
    ELSE [done EXCEPT !.session.loaded =
                          @ \cup {row_of(done.session, entity.cls, entity.oid)},
                      !.session.partial = @ \ {entity.oid}]

\* a read of entity.id: no statement when the id is loaded, else the object
\* is refreshed
attribute_id(s, entity) ==
    IF entity.oid \in identities(s) \cup s.partial
    THEN [tag |-> "return", val |-> None, session |-> s]
    ELSE load_expired(execute(s, TRUE), entity)

\* a read of another column of the entity: no statement when the columns
\* are loaded, else the expired ones are loaded
attribute(s, entity) ==
    IF entity.oid \in identities(s)
    THEN [tag |-> "return", val |-> None, session |-> s]
    ELSE load_expired(execute(s, TRUE), entity)

\* device.measurements.add(measurement): the TPM columns of a Measurement
\* made without TPM data are not set; measurement.device is set to the
\* device, as Device.measurements is the other side of it
add_measurement(done, device, measurement, tpm_data) ==
    [done EXCEPT !.val = measurement,
                 !.session.new = Append(@, measurement),
                 !.session.made = @ + 1,
                 !.session.loaded = @ \cup {measurement},
                 !.session.unset = IF tpm_data = None THEN @ \cup {measurement.oid} ELSE @,
                 !.session.backref = @ \cup {<<measurement.oid, device.key>>}]

\* the Measurement of the first row: the object the session has of it, as
\* the attributes that are loaded stay what they are; the columns of any
\* other one are loaded from the row
first_measurement(done, measurement) ==
    [done EXCEPT !.val = object_of(done.session, measurement),
                 !.session.loaded = IF measurement.oid \in identities(done.session) THEN @
                                    ELSE @ \cup {measurement},
                 !.session.partial = @ \ {measurement.oid},
                 !.session.unset = @ \ {measurement.oid}]

\* the first row of the statement, or a new Measurement
first_or_measurement(done, found, device, stamp, source, tpm_data) ==
    IF found # <<>> THEN first_measurement(done, found[1])
    ELSE add_measurement(done, device,
                         MeasurementEntity(device, stamp, source, tpm_data,
                                           done.session.made + 1),
                         tpm_data)

\* the statement of Database.Handle.measurement, built with device_id; the
\* read of device.id has loaded a stored device whose columns were expired
select_measurement(done, device_id, device, stamp, source, tpm_data) ==
    IF done.tag = "raise" THEN done
    ELSE first_or_measurement(
             [done EXCEPT !.session.loaded =
                 IF has_row(done.session, "Device", device.oid) THEN @ \cup {device} ELSE @],
             SelectSeq(done.session.rows,
                       LAMBDA e : /\ e.cls = "Measurement"
                                  /\ <<e.device>> = device_id
                                  /\ e.key = source),
             device, stamp, source, tpm_data)

\* Database.Handle.measurement: the first Measurement of the device and the
\* source, or a new one added to device.measurements, and through the
\* cascade to the session
Handle_measurement(s, device, stamp, source, tpm_data) ==
    select_measurement(execute(s, TRUE), id_of(s, device), device, stamp, source, tpm_data)

\* the caller keeps the Measurement a call returned
kept(result) ==
    IF result.tag = "raise" THEN result
    ELSE [result EXCEPT !.session.held = @ \cup {result.val.oid}]

\* the scalar of the first row of select true where exists(...)
scalar_exists(done, source) ==
    IF done.tag = "raise" THEN done
    ELSE [done EXCEPT !.val =
             IF \E i \in 1..Len(done.session.rows) :
                    /\ done.session.rows[i].cls = "Measurement"
                    /\ done.session.rows[i].key = source
             THEN <<TRUE>> ELSE None]

\* Database.Handle.exists: the scalar of the first row, None when there is
\* none.  orm_enabled: whether the select of a literal column, with the
\* mapped column inside exists(), counts as ORM-enabled in the library
Handle_exists(s, source, orm_enabled) == scalar_exists(execute(s, orm_enabled), source)

\* Database.Handle.map_values; made is the number of entities made before
map_values(device, algorithm, values, made) ==
    [i \in 1..Len(values) |-> DataPoint(device, algorithm, values[i], made + i)]

\* the loop of Database.Handle.insert over detail.list_perf(), in the order
\* the set is iterated: perf is the sequence of (name, get_perf(name))
RECURSIVE insert_perf(_, _, _, _, _)

\* the body of the loop after self.algorithm(name): the values that are not
\* None are mapped to data points
insert_values(algorithm, values, device, perf, datapoints) ==
    IF algorithm.tag = "raise" THEN algorithm
    ELSE IF values = None
    THEN insert_perf(algorithm.session, algorithm.cache, device, Tail(perf), datapoints)
    ELSE insert_perf([algorithm.session EXCEPT !.made = @ + Len(values[1])],
                     algorithm.cache, device, Tail(perf),
                     datapoints \o map_values(device, algorithm.val, values[1],
                                               algorithm.session.made))

insert_perf(s, c, device, perf, datapoints) ==
    IF perf = <<>>
    THEN [tag |-> "return", val |-> datapoints, session |-> s, cache |-> c]
    ELSE insert_values(Handle_algorithm(s, c, perf[1].name), perf[1].values,
                       device, perf, datapoints)

\* measurement.data.add_all(datapoints): the points are bound to the
\* measurement and added to the session
add_all(measurement, points) ==
    IF points.tag = "raise" THEN points
    ELSE [points EXCEPT
             !.val = None,
             !.session.new =
                 @ \o [i \in 1..Len(points.val) |->
                          [points.val[i] EXCEPT !.measurement = <<measurement.oid>>]]]

\* Database.Handle.insert after self.measurement(...)
insert_points(device, measurement, detail) ==
    IF measurement.tag = "raise"
    THEN [tag |-> "raise", val |-> measurement.val,
          session |-> measurement.session, cache |-> device.cache]
    ELSE add_all(measurement.val,
                 insert_perf(measurement.session, device.cache, device.val, detail.perf, <<>>))

\* Database.Handle.insert after self.machine(...)
insert_measurement(device, detail) ==
    IF device.tag = "raise" THEN device
    ELSE insert_points(device,
                       Handle_measurement(device.session, device.val, detail.stamp,
                                          detail.source, detail.tpm_data),
                       detail)

\* Database.Handle.insert(detail): the machine, its measurement, the
\* algorithm of every name and the data points
Handle_insert(s, c, detail) ==
    insert_measurement(Handle_machine(s, c, detail.host_name), detail)

(***************************************************************************)
(* The queries.  A value stands for the float of the same value; the       *)
(* stored values are multiples of four, so that the medians and quartiles  *)
(* are whole.                                                              *)
(***************************************************************************)
\* the rows of a class
RowsOf(s, cls) == SelectSeq(s.rows, LAMBDA e : e.cls = cls)

\* the data points joined with Algorithm on the name
data_of(s, algorithm) ==
    SelectSeq(s.rows,
              LAMBDA e : /\ e.cls = "DataPoint"
                         /\ \E i \in 1..Len(s.rows) :
                                /\ s.rows[i].cls = "Algorithm"
                                /\ s.rows[i].oid = e.algorithm
                                /\ s.rows[i].key = algorithm)

\* the values of points in ascending order
RECURSIVE ascending(_)
ascending(values) ==
    IF values = <<>> THEN <<>>
    ELSE LET least == CHOOSE i \in 1..Len(values) : \A j \in 1..Len(values) : values[i] <= values[j]
         IN  <<values[least]>>
                 \o ascending([j \in 1..(Len(values) - 1) |->
                                  IF j < least THEN values[j] ELSE values[j + 1]])

\* the value at position / den of the ordered values, interpolated between
\* its neighbours
interpolated(ordered, position, den) ==
    IF position % den = 0 THEN ordered[position \div den + 1]
    ELSE ordered[position \div den + 1]
             + ((position % den)
                    * (ordered[position \div den + 2] - ordered[position \div den + 1])) \div den

\* percentile_cont(num / den).within_group(value): the value at position
\* (n - 1) * num / den of the ordered values
percentile_cont(num, den, values) ==
    interpolated(ascending(values), (Len(values) - 1) * num, den)

\* func.max and func.min
max_of(values) == CHOOSE v \in {values[i] : i \in 1..Len(values)} :
                      \A i \in 1..Len(values) : values[i] <= v

min_of(values) == CHOOSE v \in {values[i] : i \in 1..Len(values)} :
                      \A i \in 1..Len(values) : v <= values[i]

\* the values of a sequence of points
values_of(points) == [i \in 1..Len(points) |-> points[i].value]
\* the measurements that have a data point among points, in the order of
\* their rows
measured(s, points) ==
    SelectSeq(s.rows,
              LAMBDA e : /\ e.cls = "Measurement"
                         /\ \E i \in 1..Len(points) : points[i].measurement = <<e.oid>>)

\* the values of the points of a measurement id
of_measurement(points, id) ==
    values_of(SelectSeq(points, LAMBDA p : p.measurement = id))

\* the aggregate of the values of a group
aggregate_of(aggregate, values) ==
    IF aggregate = "median" THEN percentile_cont(1, 2, values) ELSE max_of(values)

\* group_by(DataPoint.measurement_id): one row per measurement of groups
group_by(aggregate, points, groups) ==
    [i \in 1..Len(groups) |->
        <<groups[i].oid, aggregate_of(aggregate, of_measurement(points, <<groups[i].oid>>))>>]

\* the points of the query, grouped by their measurements
grouped(s, aggregate, points) == group_by(aggregate, points, measured(s, points))

\* the rows of the aggregate queries: (measurement id, aggregate of the
\* values), one per measurement with data points of the algorithm
query_rows(s, aggregate, algorithm) == grouped(s, aggregate, data_of(s, algorithm))

(***************************************************************************)
(* DBAggregator.compute.  Handle.tables is a dict of dicts of dicts; an    *)
(* entry of a dict is present or not, so that an empty dict is told from a *)
(* missing one.                                                            *)
(***************************************************************************)
AGGREGATES == {"median", "max"}

\* Handle.tables after Handle.__init__: {}
EmptyTables == [a \in AGGREGATES |-> Missing]

\* no query executed yet
NoneExecuted == [pair \in AGGREGATES \X ALGORITHM_NAMES |-> 0]

\* {} as the value of tables[aggregate]
EmptyTable == [alg \in ALGORITHM_NAMES |-> Missing]

\* for row in rows: q1[row[0]] = row[1]
RECURSIVE fill(_, _)
fill(q1, rows) ==
    IF rows = <<>> THEN q1
    ELSE LET r == Head(rows)
         IN  fill([i \in DOMAIN q1 \cup {r[1]} |-> IF i = r[1] THEN r[2] ELSE q1[i]],
                  Tail(rows))

\* a variant that tests the truth of the table, not its presence
is_not_None_truthy(entry) == entry.present /\ entry.value # <<>>

\* dict.get(key) is not None
is_not_None(entry) == entry.present

\* the table of the pair is stored in Handle.tables
stored(t, q0, aggregate, algorithm, table) ==
    [t EXCEPT ![aggregate] = Present([q0 EXCEPT ![algorithm] = Present(table)])]

\* the loop of compute over the rows: the filled table is returned
filled(t, q0, s, aggregate, algorithm, table) ==
    [tag |-> "return", val |-> table, tables |-> stored(t, q0, aggregate, algorithm, table),
     session |-> s, executed |-> TRUE]

\* compute from handle.session.execute(query) on: q0 and q1 are the dicts
\* setdefault returned
compute_rows(t, q0, q1, done, aggregate, algorithm) ==
    IF done.tag = "raise"
    THEN [tag |-> "raise", val |-> done.val,
          tables |-> stored(t, q0, aggregate, algorithm, q1),
          session |-> done.session, executed |-> TRUE]
    ELSE filled(t, q0, done.session, aggregate, algorithm,
                fill(q1, query_rows(done.session, aggregate, algorithm)))

\* q0.setdefault(self.algorithm, {})
setdefault_algorithm(t, q0, s, aggregate, algorithm) ==
    compute_rows(t, q0, IF q0[algorithm].present THEN q0[algorithm].value ELSE <<>>,
                 execute(s, TRUE), aggregate, algorithm)

\* DBAggregator.compute(aggregate, query) of the aggregator of algorithm on
\* the handle with tables t and session s; the result carries the tables,
\* the session and whether the query was executed
DBAggregator_compute(t, s, aggregate, algorithm) ==
    IF is_not_None(t[aggregate]) /\ is_not_None(t[aggregate].value[algorithm])
    THEN [tag |-> "return", val |-> t[aggregate].value[algorithm].value,
          tables |-> t, session |-> s, executed |-> FALSE]
    ELSE setdefault_algorithm(t, IF t[aggregate].present THEN t[aggregate].value
                                 ELSE EmptyTable,
                              s, aggregate, algorithm)

\* table.get(id): the value, as a one-element tuple, or None; the id of a
\* pending entity is None, which is no key of the table
table_get(d, id) == IF id # None /\ id[1] \in DOMAIN d THEN <<d[id[1]]>> ELSE None

\* .get(self.detail.entity.id) on the table compute returned, after the read
\* of the id
got_id(computed, read, entity) ==
    IF read.tag = "raise"
    THEN [computed EXCEPT !.tag = "raise", !.val = read.val, !.session = read.session]
    ELSE [computed EXCEPT !.val = table_get(computed.val, id_of(read.session, entity)),
                          !.session = read.session]

\* compute(...).get(self.detail.entity.id): the id is read when compute has
\* returned
get_of(computed, entity) ==
    IF computed.tag = "raise" THEN computed
    ELSE got_id(computed, attribute_id(computed.session, entity), entity)

\* DBAggregator.median of the aggregator of a measurement
DBAggregator_median(t, s, algorithm, entity) ==
    get_of(DBAggregator_compute(t, s, "median", algorithm), entity)

\* session.execute(statement) when the id the statement is built with has
\* been read
then_execute(read, orm_enabled) ==
    IF read.tag = "raise" THEN read ELSE execute(read.session, orm_enabled)

\* the values of the rows of the query of values
values_rows(done, algorithm, id) ==
    IF done.tag = "raise" THEN done
    ELSE [done EXCEPT !.val = of_measurement(data_of(done.session, algorithm), id)]

\* DBAggregator.values of the aggregator of algorithm on a measurement: the
\* query is built with self.detail.entity.id, then executed
DBAggregator_values(s, algorithm, entity) ==
    values_rows(then_execute(attribute_id(s, entity), TRUE), algorithm, id_of(s, entity))

\* the names of the rows of the statement of list_perf
names_rows(done, id) ==
    IF done.tag = "raise" THEN done
    ELSE [done EXCEPT !.val =
             {name \in ALGORITHM_NAMES :
                 of_measurement(data_of(done.session, name), id) # <<>>}]

\* DBMeasurement.Details.list_perf: a textual statement over the view
\* view_algorithms, which the database defines outside the code; it is taken
\* as the (measurement_id, algorithm_id) pairs of the data points
Details_list_perf(s, entity) ==
    names_rows(then_execute(attribute_id(s, entity), FALSE), id_of(s, entity))

\* DBMeasurement.Details.get_perf: pass
Details_get_perf == Return(None)

(***************************************************************************)
(* DBMeasurementFactory.  execute, create, stats and box_stats are         *)
(* generators: a call makes the generator and runs none of its body, the   *)
(* statement runs when the caller resumes it first, and between two        *)
(* resumptions the caller can make other calls.  The results of stats and  *)
(* box_stats have fewer rows than the 64 of yield_per, which the driver    *)
(* has all delivered when the first row is fetched.                        *)
(***************************************************************************)
AT_DB == <<"@", "d", "b">>

DB_PREFIX == <<"d", "b", ":">>

SQL_TRUE == <<"t", "r", "u", "e">>

SQL_FALSE == <<"f", "a", "l", "s", "e">>

\* str.startswith and str.removeprefix
startswith(string, prefix) ==
    Len(string) >= Len(prefix) /\ SubSeq(string, 1, Len(prefix)) = prefix

removeprefix(string, prefix) ==
    IF startswith(string, prefix) THEN SubSeq(string, Len(prefix) + 1, Len(string))
    ELSE string

\* DBMeasurementFactory.resource_query
resource_query(resource) ==
    IF startswith(resource, DB_PREFIX) THEN <<removeprefix(resource, DB_PREFIX)>>
    ELSE IF resource = AT_DB THEN <<SQL_TRUE>>
    ELSE None

\* the constraint of a where clause, for the two constraints used here
satisfies(constraint) == constraint = SQL_TRUE

\* the identity map after the rows of a statement that selects the id and
\* device_id of measurements: an object whose columns are loaded stays as it
\* is, of any other the columns that are not selected are expired
from_statement(s, ids) ==
    [s EXCEPT !.partial = @ \cup (ids \ (identities(s) \ s.unset)),
              !.unset = @ \ ids,
              !.loaded = {e \in @ : e.oid \notin (s.unset \cap ids)}]

\* .scalars().all(): the Measurement entities of the rows
scalars_all(done, found) ==
    [done EXCEPT !.val = found,
                 !.session = from_statement(done.session,
                                            {found[i].oid : i \in 1..Len(found)})]

\* the measurements of the rows of the statement of execute
measurements_rows(done, query) ==
    IF done.tag = "raise" THEN done
    ELSE scalars_all(done,
                     IF satisfies(query) THEN RowsOf(done.session, "Measurement") ELSE <<>>)

\* the body of DBMeasurementFactory.execute(query) up to its loop: the
\* list .scalars().all() returns, of the stored measurements that satisfy
\* the query
DBMeasurementFactory_execute(s, query) == measurements_rows(execute(s, TRUE), query)

\* create after resource_query: the generator of execute(filter_string) is
\* resumed, or the body ends without a statement
create_filtered(s, filter_string) ==
    IF filter_string # None THEN DBMeasurementFactory_execute(s, filter_string[1])
    ELSE [tag |-> "return", val |-> <<>>, session |-> s]

\* the body of DBMeasurementFactory.create(resource) up to the loop of
\* execute
DBMeasurementFactory_create(s, resource) == create_filtered(s, resource_query(resource))

\* DBMeasurement(self.handle, measurement)
DBMeasurement(oid) == [cls |-> "DBMeasurement", entity |-> oid]

\* resource_query(resources) or "true": an empty string is false
or_true(constraints) ==
    IF constraints = None \/ constraints[1] = <<>> THEN SQL_TRUE ELSE constraints[1]

\* the measurement of a data point
measurement_of(s, point) == row_of(s, "Measurement", point.measurement[1])

\* the greatest of a set of strings that holds one string at most, NULL
\* when there is none
greatest(vendors) == IF vendors = {} THEN None ELSE CHOOSE v \in vendors : TRUE

\* func.max(Measurement.vendor) over the measurements of points: NULL when
\* none has a vendor; the stored vendors are one string
max_vendor(s, points) ==
    greatest({measurement_of(s, points[k]).vendor : k \in 1..Len(points)} \ {None})

\* the points the query joins: those of the algorithm, when the constraints
\* hold
joined(s, algorithm, constraints) ==
    IF satisfies(constraints) THEN data_of(s, algorithm) ELSE <<>>

\* a row of a result: the id of its device, its other columns, and the key
\* the statement orders the rows by (<<>> when it does not order them)
ResultRow(id, val, key) == [id |-> id, val |-> val, key |-> key]

\* the sum of a sequence of numbers
RECURSIVE sum_of(_)
sum_of(values) == IF values = <<>> THEN 0 ELSE Head(values) + sum_of(Tail(values))

\* a fraction in lowest terms
fraction(num, den) == <<num \div egcd(num, den)[1], den \div egcd(num, den)[1]>>

\* func.stddev, the sample standard deviation: NULL for one value, else the
\* square root of (n * sum(x^2) - sum(x)^2) / (n * (n - 1)), carried by the
\* fraction under the root
stddev(values) ==
    IF Len(values) < 2 THEN None
    ELSE <<[sqrt |-> fraction(Len(values) * sum_of([i \in 1..Len(values) |-> values[i] * values[i]])
                                  - sum_of(values) * sum_of(values),
                              Len(values) * (Len(values) - 1))]>>

\* the row of stats of a device over its points
stats_row(s, id, own) ==
    ResultRow(id,
              <<max_vendor(s, own), percentile_cont(1, 2, values_of(own)),
                stddev(values_of(own)), Len(own)>>,
              <<>>)

\* group_by(DataPoint.device_id)
stats_rows(s, points) ==
    {stats_row(s, id, SelectSeq(points, LAMBDA p : p.device = id)) :
        id \in {points[k].device : k \in 1..Len(points)}}

\* the rows of the statement of DBMeasurementFactory.stats(algorithm,
\* resources): per device with data points of the algorithm the device id,
\* the greatest vendor, the median, the standard deviation and the number
\* of the values
DBMeasurementFactory_stats(s, algorithm, rs) ==
    stats_rows(s, joined(s, algorithm, or_true(resource_query(rs))))

\* func.date_trunc('month', Measurement.stamp) of a data point; a stamp
\* stands for its month
month(s, point) == measurement_of(s, point).stamp

\* the hostnames in the order of the collation of the database
COLLATION == <<"host-a", "host-b">>

collate(hostname) == CHOOSE i \in 1..Len(COLLATION) : COLLATION[i] = hostname

\* the row of box_stats of a device and month over the values
box_row(s, group, values) ==
    ResultRow(group[1],
              <<<<min_of(values), percentile_cont(1, 4, values), percentile_cont(1, 2, values),
                  percentile_cont(3, 4, values), max_of(values)>>,
                group[2]>>,
              <<collate(row_of(s, "Device", group[1]).key), group[2]>>)

\* group_by(DataPoint.device_id, Device.hostname, 'month')
box_rows(s, points) ==
    {box_row(s, g, values_of(SelectSeq(points,
                                       LAMBDA p : p.device = g[1] /\ month(s, p) = g[2]))) :
        g \in {<<points[k].device, month(s, points[k])>> : k \in 1..Len(points)}}

\* the rows of the statement of DBMeasurementFactory.box_stats(algorithm,
\* resources): per device and month the device id, the minimum, the
\* quartiles and the maximum of the values, and the month
DBMeasurementFactory_box_stats(s, algorithm, rs) ==
    box_rows(s, joined(s, algorithm, or_true(resource_query(rs))))

\* .order_by(Device.hostname, 'month'): whether the key a is not after b
not_after(a, b) == a[1] < b[1] \/ (a[1] = b[1] /\ a[2] <= b[2])

\* the rows the result can deliver next: any row of a statement that does
\* not order them, else one with the least key
next_rows(rows) ==
    {r \in rows : r.key = <<>> \/ \A q \in rows : not_after(r.key, q.key)}

\* no generator of the factory is open
NO_GENERATOR ==
    [kind |-> "none", algorithm |-> "none", resources |-> <<>>, status |-> "none",
     rows |-> {}]

\* the generator object a call of execute, create, stats or box_stats
\* returns: none of its body has run.  resources is the query of execute
\* and the resource of create, which have no algorithm
Generator(kind, algorithm, rs) ==
    [kind |-> kind, algorithm |-> algorithm, resources |-> rs, status |-> "created",
     rows |-> {}]

\* the rows of the statement of a generator of stats or box_stats
generator_rows(g, s) ==
    IF g.kind = "stats" THEN DBMeasurementFactory_stats(s, g.algorithm, g.resources)
    ELSE DBMeasurementFactory_box_stats(s, g.algorithm, g.resources)

\* the generators that yield measurements
MEASUREMENT_KINDS == {"execute", "create"}

\* the body of a generator from its start to its loop: the statement is
\* executed; execute and create collect the list of the measurements
started(g, s) ==
    CASE g.kind = "execute" -> DBMeasurementFactory_execute(s, g.resources)
      [] g.kind = "create" -> DBMeasurementFactory_create(s, g.resources)
      [] OTHER -> execute(s, TRUE)

\* the list of execute as the items left to yield, in the order the
\* database returned the rows in, which is any
listed(measurements) ==
    {ResultRow(measurements[i].oid, <<>>, <<>>) : i \in 1..Len(measurements)}

\* the object Session.get found: its columns are loaded
got(done, cls, oid) ==
    IF done.tag = "raise" THEN done
    ELSE IF ~has_row(done.session, cls, oid) THEN [done EXCEPT !.val = None]
    ELSE [done EXCEPT !.val = <<row_of(done.session, cls, oid)>>,
                      !.session.loaded = @ \cup {row_of(done.session, cls, oid)}]

\* Session.get(cls, id): the object of the identity map when its columns
\* are loaded, without a statement; otherwise a select, which flushes the
\* session before: the object, or None when there is no row
Session_get(s, cls, oid) ==
    IF \E e \in s.loaded : e.cls = cls /\ e.oid = oid
    THEN [tag |-> "return", val |-> <<CHOOSE e \in s.loaded : e.cls = cls /\ e.oid = oid>>,
          session |-> s]
    ELSE got(execute(s, TRUE), cls, oid)

\* what stats and box_stats yield for a row and its device
yielded(kind, device, r) ==
    IF kind = "stats" THEN <<device, r.val>> ELSE <<device, r.val[1], r.val[2]>>

(***************************************************************************)
(* DBMeasurement.Details.tpm_data.  An Optional column is None or a        *)
(* one-element tuple.                                                      *)
(***************************************************************************)
\* int(Decimal.to_integral_value()), rounding half to even
to_integral_value(d) ==
    IF d.exp >= 0 THEN d.coef * 10^d.exp
    ELSE LET unit == 10^(-d.exp)
             q == d.coef \div unit
             r == d.coef % unit
         IN  IF 2 * r > unit \/ (2 * r = unit /\ q % 2 = 1) THEN q + 1 ELSE q

\* DBMeasurement.Details.tpm_data(self) on the measurement entity; the
\* local firmware is bound only when the attribute is not None, and an int
\* has no to_integral_value
Details_tpm_data(entity) ==
    IF \A x \in {entity.platform, entity.vendor, entity.vendor_string} : x = None
    THEN Return(None)
    ELSE IF entity.firmware = None THEN Raise("UnboundLocalError")
    ELSE IF entity.firmware[1].type # "Decimal" THEN Raise("AttributeError")
    ELSE Return(<<TPMData(entity.platform, entity.vendor, entity.vendor_string,
                          <<to_integral_value(entity.firmware[1])>>)>>)

\* tpm_data when the columns of the entity are read: on the object as the
\* session has it then
then_tpm_data(read, entity) ==
    IF read.tag = "raise" THEN read
    ELSE [tag |-> Details_tpm_data(object_of(read.session, entity)).tag,
          val |-> Details_tpm_data(object_of(read.session, entity)).val,
          session |-> read.session]

\* DBMeasurement.Details.tpm_data(self) of a DBMeasurement of the session:
\* the first read of a column loads the expired columns of the entity
DBMeasurement_tpm_data(s, entity) == then_tpm_data(attribute(s, entity), entity)

\* the errors of a statement of the session
SESSION_ERRORS == {"IntegrityError", "PendingRollbackError", "ObjectDeletedError"}

(***************************************************************************)
(* DBMeasurement.Details.source, host_name and stamp.                      *)
(***************************************************************************)
DECIMAL_DIGITS == <<"0", "1", "2", "3", "4", "5", "6", "7", "8", "9">>

\* str(n) of a natural number
RECURSIVE str_int(_)
str_int(n) ==
    IF n < 10 THEN <<DECIMAL_DIGITS[n + 1]>>
    ELSE str_int(n \div 10) \o <<DECIMAL_DIGITS[(n % 10) + 1]>>

\* the id in an f-string: its digits, or None
format_id(id) == IF id = None THEN <<"N", "o", "n", "e">> ELSE str_int(id[1])

\* the characters of the sources
SOURCE_CHARS == ("a.zip" :> A_ZIP) @@ ("b.zip" :> B_ZIP)

DB_HASH == <<"d", "b", "#">>

\* a read of a column of the entity when an earlier read has gone through
then_attribute(read, entity) ==
    IF read.tag = "raise" THEN read ELSE attribute(read.session, entity)

\* f"db#{self.entity.id}={self.entity.source}" when the two are read
formatted_source(read, entity) ==
    IF read.tag = "raise" THEN read
    ELSE [read EXCEPT !.val = DB_HASH \o format_id(id_of(read.session, entity))
                                  \o <<"=">> \o SOURCE_CHARS[entity.key]]

\* DBMeasurement.Details.source: the id of the entity is read, then its
\* source
Details_source(s, entity) ==
    formatted_source(then_attribute(attribute_id(s, entity), entity), entity)

\* the stamp of the object when it is read
stamp_read(read, entity) ==
    IF read.tag = "raise" THEN read
    ELSE [read EXCEPT !.val = object_of(read.session, entity).stamp]

\* DBMeasurement.Details.stamp
Details_stamp(s, entity) == stamp_read(attribute(s, entity), entity)

\* .hostname of what entity.device is: None has no hostname
hostname_of(device) ==
    IF device.tag = "raise" THEN device
    ELSE IF device.val = None THEN [device EXCEPT !.tag = "raise", !.val = "AttributeError"]
    ELSE [device EXCEPT !.val = device.val[1].key]

\* entity.device when it is not set in memory: the Device of device_id, of
\* the identity map or selected, once device_id is read
lazy_device(read, entity) ==
    IF read.tag = "raise" THEN read ELSE Session_get(read.session, "Device", entity.device)

\* DBMeasurement.Details.host_name: self.entity.device.hostname.  The
\* device of a Measurement made on this session since the last commit is
\* the object it was added to; of any other one it is loaded.  device_id is
\* loaded when the id is.
Details_host_name(s, entity) ==
    IF \E b \in s.backref : b[1] = entity.oid
    THEN [tag |-> "return", val |-> (CHOOSE b \in s.backref : b[1] = entity.oid)[2],
          session |-> s]
    ELSE hostname_of(lazy_device(attribute_id(s, entity), entity))

(***************************************************************************)
(* The state: the measurement row under analysis and the outcome of the    *)
(* last call on it.  row.k is the nonce the signer used (0: not known),    *)
(* row.d the discrete logarithm of the public key, stdout the writes made  *)
(* to standard output so far.                                             *)
(***************************************************************************)
MaxScalar == 1

MaxKey == 2

MaxDigest == 1

Revisions == {132, 135, 136}

NoRow == [curve |-> "none", algorithm |-> "none", revision |-> 0, r |-> 0, s |-> 0,
          x |-> 0, d |-> 0, pk |-> IDENTITY_ELEMENT, e |-> <<>>, nonce_point |-> None,
          k |-> 0, signed |-> 0, source |-> "none", report |-> 0]

NoOut == [op |-> "none", tag |-> "none", val |-> 0]

Scalars(n) == (0..MaxScalar) \cup {n - 1, n}

\* a digest of the expected length, 2 * curve_bytes(curve) hex characters
ProperDigest(curve, v) == hexlify(be_bytes(v, curve_bytes(curve)))

\* a digest of the expected length whose first character is no hex digit
NonHexDigest(curve) == [ProperDigest(curve, 0) EXCEPT ![1] = 16]

\* a digest of the expected length that starts with a white-space character
\* outside ASCII, and one that starts with a minus sign
BlankDigest(curve) == [ProperDigest(curve, 1) EXCEPT ![1] = CHAR.blank]

MinusDigest(curve) == [ProperDigest(curve, 1) EXCEPT ![1] = CHAR.minus]

\* the digests of archived rows: of the expected length, one byte longer, or
\* not hex
Digests(curve) ==
    {ProperDigest(curve, v) : v \in 0..MaxDigest}
        \cup {ProperDigest(curve, v) \o <<0, 1>> : v \in 0..MaxDigest}
        \cup {NonHexDigest(curve), BlankDigest(curve), MinusDigest(curve)}

\* the number of threads that call the engine at once
MaxThreads == 2

Threads == 1..MaxThreads

\* the module-level tables as they are after import
REGISTRIES ==
    [GENERATORS |-> GENERATORS, CURVES |-> CURVES, CURVES_REVERSED |-> CURVES_REVERSED,
     ALGS |-> ALGS, ALGS_REVERSED |-> ALGS_REVERSED, CURVE_ORDER |-> CURVE_ORDER]

\* a thread that has made no call
IdleThread ==
    [pc |-> "idle", call |-> 0, n |-> 0, g |-> IDENTITY_ELEMENT, pending |-> <<>>,
     result |-> [tag |-> "none", val |-> 0]]

NoThreads == [t \in Threads |-> IdleThread]

InitCore == row = NoRow /\ out = NoOut /\ stdout = <<>>

\* no thread has made a call
IdleConc == threads = NoThreads /\ registries = REGISTRIES

\* create_all has not been called
IdleBatch ==
    /\ resources = <<>> /\ gen = NotCreated /\ files = FILES /\ log = <<>> /\ delivered = <<>>

\* the details an earlier run of the program has inserted, as insert reads
\* them: a measurement of each host, with one and with two values of
\* Perf_RSA, the one of host-a in the later month
STORED_DETAILS ==
    <<[host_name |-> "host-a", stamp |-> 2, source |-> "a.zip", tpm_data |-> None,
       perf |-> <<[name |-> "Perf_RSA", values |-> <<<<12>>>>]>>],
      [host_name |-> "host-b", stamp |-> 1, source |-> "b.zip",
       tpm_data |-> <<TPMData(<<"IFX">>, <<"IFX">>, <<"SLB9670">>, <<7>>)>>,
       perf |-> <<[name |-> "Perf_RSA", values |-> <<<<4, 20>>>>]>>]>>

\* handle.insert of the details one after another, each when the values of
\* the region have expired
RECURSIVE insert_all(_, _)
insert_all(s, details) ==
    IF details = <<>> THEN s
    ELSE insert_all(Handle_insert(s, EmptyCache, Head(details)).session, Tail(details))

\* the session of a new handle on the database the earlier run left: the
\* details inserted and committed, and the with-block left
StoredSession ==
    Session_close(Handle_commit(insert_all(EmptySession, STORED_DETAILS)).session)

\* a handle just made on a new session, with an empty database and an empty
\* cache file
IdleDb ==
    /\ session = EmptySession /\ cache = EmptyCache
    /\ handle_tables = EmptyTables /\ executed = NoneExecuted /\ calls = 0
    /\ generator = NO_GENERATOR

Init == InitCore /\ IdleConc /\ IdleBatch /\ IdleDb

\* a TPM signs a digest: a genuine row.  An ECSCHNORR row may be analysed
\* under another revision than the one the TPM signed with (row.signed).
Measure ==
    /\ row = NoRow
    /\ out = NoOut
    /\ \E curve \in CurveNames, algorithm \in AlgNames, revision \in Revisions :
       \E x \in 1..MaxKey, k \in 1..(CURVE_ORDER[curve] - 1), v \in 0..MaxDigest :
       \E r0 \in IF algorithm = "ECDAA" THEN 0..MaxScalar ELSE {0} :
       \E signed \in IF algorithm = "ECSCHNORR" THEN Revisions ELSE {revision} :
       \E digest \in {ProperDigest(curve, v)} :
       \E sig \in {tpm_sign(curve, algorithm, signed, x, k, digest, r0)} :
           /\ sig.accepted
           /\ row' = [curve |-> curve, algorithm |-> algorithm, revision |-> revision,
                      r |-> sig.r, s |-> sig.s, x |-> x, d |-> x,
                      pk |-> point_mul(CURVE_PARAMS[curve], x, GENERATORS[curve]),
                      e |-> digest, nonce_point |-> sig.nonce_point, k |-> k,
                      signed |-> signed, source |-> "caller", report |-> 0]
           /\ out' = NoOut
           /\ UNCHANGED stdout
           /\ UNCHANGED exceptCore

\* a row read from an archive: any r and s; the private scalar x matches the
\* public key, or is 0 beside the public key G
LoadRow ==
    /\ row = NoRow
    /\ out = NoOut
    /\ \E curve \in CurveNames, algorithm \in AlgNames, revision \in Revisions :
       \E r \in Scalars(CURVE_ORDER[curve]), s \in Scalars(CURVE_ORDER[curve]) :
       \E x \in 0..MaxKey, e \in Digests(curve) :
       \E c \in IF algorithm = "ECDAA" THEN 0..MaxScalar ELSE {0} :
           LET cv == CURVE_PARAMS[curve]
               d == IF x = 0 THEN 1 ELSE x
               C == point_mul(cv, c, GENERATORS[curve])
           IN  /\ row' = [curve |-> curve, algorithm |-> algorithm, revision |-> revision,
                          r |-> r, s |-> s, x |-> x, d |-> d,
                          pk |-> point_mul(cv, d, GENERATORS[curve]),
                          e |-> e, nonce_point |-> IF c = 0 THEN None ELSE <<C.x, C.y>>,
                          k |-> 0, signed |-> 0, source |-> "caller", report |-> 0]
               /\ out' = NoOut
               /\ UNCHANGED stdout
               /\ UNCHANGED exceptCore

\* a file that holds a document, a file safe_load fails on, and no file
Report(document) == [exists |-> TRUE, document |-> Return(document)]

Unreadable(error) == [exists |-> TRUE, document |-> Raise(error)]

MISSING == [exists |-> FALSE, document |-> Return(NoneValue)]

\* the capability reports of devices.  With a dict of str values: without
\* the capability section, without TPM2_PT_REVISION in it, without the value
\* of TPM2_PT_REVISION, with a revision, with a value that is no number, with
\* a revision between blanks and with the revision nan.  With a value
\* safe_load resolves to no str: a float, an int, an int above the floats,
\* .inf, a bool, a null and a list.  With digits outside ASCII and with an
\* information separator.  With a !!binary value: the bytes of 1.36, of a
\* number between white space of ASCII, of a digit outside ASCII in UTF-8,
\* and bytes after an information separator; with a date.  With a str, a
\* null or bytes where a section belongs.  With a document that is no dict:
\* an empty file, a str, a list and bytes.  A file that is no YAML, one that
\* is no text, and a file that does not exist.
REPORTS ==
    << Report(DictValue("Manufacturer" :> StrValue(<<"I", "F", "X">>))),
       Report(DictValue("Capability_properties-fixed" :>
            DictValue("TPM2_PT_FAMILY_INDICATOR" :> DictValue("value" :> StrValue(<<"2", ".", "0">>))))),
       Report(DictValue(("Firmware version" :> StrValue(<<"7", ".", "2">>)) @@
            ("Capability_properties-fixed" :>
                DictValue("TPM2_PT_REVISION" :> DictValue("raw" :> StrValue(<<"0", "x", "8", "a">>)))))),
       Report(DictValue("Capability_properties-fixed" :>
            DictValue("TPM2_PT_REVISION" :> DictValue("value" :> StrValue(<<"1", ".", "3", "8">>))))),
       Report(DictValue(("Manufacturer" :> StrValue(<<"I", "F", "X">>)) @@
            ("Capability_properties-fixed" :>
                DictValue("TPM2_PT_REVISION" :> DictValue("value" :> StrValue(<<"1", ".", "1", "6">>)))))),
       Report(DictValue("Capability_properties-fixed" :>
            DictValue("TPM2_PT_REVISION" :> DictValue("value" :> StrValue(<<"1", ".", "2">>))))),
       Report(DictValue("Capability_properties-fixed" :>
            DictValue("TPM2_PT_REVISION" :> DictValue("value" :> StrValue(<<"2">>))))),
       Report(DictValue("Capability_properties-fixed" :>
            DictValue("TPM2_PT_REVISION" :> DictValue("value" :> StrValue(<<"n", "/", "a">>))))),
       Report(DictValue("Capability_properties-fixed" :>
            DictValue("TPM2_PT_REVISION" :> DictValue("value" :> StrValue(<<" ", "1", ".", "3", "8", "5", "\n">>))))),
       Report(DictValue("Capability_properties-fixed" :>
            DictValue("TPM2_PT_REVISION" :> DictValue("value" :> StrValue(<<"n", "a", "n">>))))),
       Report(DictValue("Capability_properties-fixed" :>
            DictValue("TPM2_PT_REVISION" :> DictValue("value" :> FloatValue(Finite(1, 138, 0 - 2)))))),
       Report(DictValue("Capability_properties-fixed" :>
            DictValue("TPM2_PT_REVISION" :> DictValue("value" :> IntValue(Finite(1, 138, 0)))))),
       Report(DictValue("Capability_properties-fixed" :>
            DictValue("TPM2_PT_REVISION" :> DictValue("value" :> IntValue(Finite(1, 1, 309)))))),
       Report(DictValue("Capability_properties-fixed" :>
            DictValue("TPM2_PT_REVISION" :> DictValue("value" :> FloatValue(Infinity(1)))))),
       Report(DictValue("Capability_properties-fixed" :>
            DictValue("TPM2_PT_REVISION" :> DictValue("value" :> BoolValue(TRUE))))),
       Report(DictValue("Capability_properties-fixed" :>
            DictValue("TPM2_PT_REVISION" :> DictValue("value" :> NoneValue)))),
       Report(DictValue("Capability_properties-fixed" :>
            DictValue("TPM2_PT_REVISION" :> DictValue("value" :> ListValue(<<StrValue(<<"1", ".", "3", "8">>)>>))))),
       Report(DictValue("Capability_properties-fixed" :>
            DictValue("TPM2_PT_REVISION" :> DictValue("value" :> StrValue(<<"U+0661", ".", "U+0663", "U+0668">>))))),
       Report(DictValue("Capability_properties-fixed" :>
            DictValue("TPM2_PT_REVISION" :> DictValue("value" :> StrValue(<<"U+001C", "1", ".", "3", "6">>))))),
       Report(DictValue("Capability_properties-fixed" :>
            DictValue("TPM2_PT_REVISION" :> DictValue("value" :> BytesValue(<<"1", ".", "3", "6">>))))),
       Report(DictValue("Capability_properties-fixed" :>
            DictValue("TPM2_PT_REVISION" :>
                DictValue("value" :> BytesValue(<<"U+000B", "1", "_", "0", "e", "-", "1", "\n">>))))),
       Report(DictValue("Capability_properties-fixed" :>
            DictValue("TPM2_PT_REVISION" :> DictValue("value" :> BytesValue(<<"0xD9", "0xA1">>))))),
       Report(DictValue("Capability_properties-fixed" :>
            DictValue("TPM2_PT_REVISION" :> DictValue("value" :> BytesValue(<<"U+001C", "1">>))))),
       Report(DictValue("Capability_properties-fixed" :>
            DictValue("TPM2_PT_REVISION" :> DictValue("value" :> DateValue(<<2019, 11, 8>>))))),
       Report(DictValue("Capability_properties-fixed" :>
            DictValue("TPM2_PT_REVISION" :> BytesValue(<<"1", ".", "3", "6">>)))),
       Report(DictValue("Capability_properties-fixed" :>
            DictValue("TPM2_PT_REVISION" :> StrValue(<<"1", ".", "3", "8">>)))),
       Report(DictValue("Capability_properties-fixed" :> StrValue(<<"n", "o", "n", "e">>))),
       Report(DictValue("Capability_properties-fixed" :> NoneValue)),
       Report(NoneValue),
       Report(StrValue(<<"M", "a", "n", "u", "f", "a", "c", "t", "u", "r", "e", "r">>)),
       Report(ListValue(<<StrValue(<<"M", "a", "n", "u", "f", "a", "c", "t", "u", "r", "e", "r">>)>>)),
       Report(BytesValue(<<"M", "a", "n", "u", "f", "a", "c", "t", "u", "r", "e", "r">>)),
       Unreadable("yaml.YAMLError"),
       Unreadable("UnicodeDecodeError"),
       MISSING >>

\* get_device_info(results_path) on the report of a device
GetDeviceInfo ==
    /\ row = NoRow
    /\ out = NoOut
    /\ \E i \in 1..Len(REPORTS) :
           out' = [op |-> "get_device_info", args |-> [report |-> i]]
                  @@ get_device_info(REPORTS[i])
    /\ UNCHANGED <<row, stdout>>
    /\ UNCHANGED exceptCore

\* the reports whose rows are analysed: without a section, without a
\* revision, with the revision 1.38, and with the bytes of 1.36
DeviceReports == {1, 2, 4, 20}

\* a row of a device: the caller passes the revision get_device_info reports
\* (source "device"), or passes no revision, so that the default of the
\* parameter applies (source "default")
LoadDeviceRow ==
    /\ row = NoRow
    /\ out = NoOut
    /\ \E curve \in CurveNames, algorithm \in AlgNames :
       \E i \in DeviceReports, source \in {"device", "default"} :
       \E r \in Scalars(CURVE_ORDER[curve]), s \in Scalars(CURVE_ORDER[curve]) :
       \E v \in 0..MaxDigest :
       \E c \in IF algorithm = "ECDAA" THEN 0..MaxScalar ELSE {0} :
       \E info \in {get_device_info(REPORTS[i])} :
           LET cv == CURVE_PARAMS[curve]
               x == MaxKey
               C == point_mul(cv, c, GENERATORS[curve])
           IN  /\ info.tag = "return"
               /\ source = "default" => i = 1
               /\ row' = [curve |-> curve, algorithm |-> algorithm,
                          revision |-> IF source = "device" THEN hundredths(info.val.revision)
                                       ELSE DEFAULT_REVISION,
                          r |-> r, s |-> s, x |-> x, d |-> x,
                          pk |-> point_mul(cv, x, GENERATORS[curve]),
                          e |-> ProperDigest(curve, v),
                          nonce_point |-> IF c = 0 THEN None ELSE <<C.x, C.y>>,
                          k |-> 0, signed |-> 0, source |-> source, report |-> i]
               /\ out' = NoOut
               /\ UNCHANGED stdout
               /\ UNCHANGED exceptCore

ComputeNonce ==
    /\ row # NoRow
    /\ out = NoOut
    /\ out' = [op |-> "compute_nonce"] @@
              compute_nonce(row.r, row.s, row.x, row.e, row.algorithm, row.curve, row.revision)
    /\ UNCHANGED <<row, stdout>>
    /\ UNCHANGED exceptCore

VerifySignature ==
    /\ row # NoRow
    /\ out = NoOut
    /\ out' = [op |-> "verify_signature"] @@
              verify_signature(row.r, row.s, row.pk, row.e, row.algorithm, row.curve,
                               row.revision, row.nonce_point)
    /\ stdout' = stdout \o verify_signature_printed(row.algorithm, row.curve, row.nonce_point)
    /\ UNCHANGED row
    /\ UNCHANGED exceptCore

\* the names curve_bytes is asked about
CurveNameProbes == DOMAIN NAME_CHARS

\* curve_bytes(name), for a registry name or any other string
CurveBytes ==
    /\ row = NoRow
    /\ out = NoOut
    /\ \E name \in CurveNameProbes :
           out' = [op |-> "curve_bytes", args |-> [name |-> name]] @@ Return(curve_bytes(name))
    /\ UNCHANGED <<row, stdout>>
    /\ UNCHANGED exceptCore

\* reconstruct_pk(pk, curve, sk): pk is d*G, or d*G with y moved by one; sk
\* is absent, the scalar of pk, the scalar of pk plus the order, or another
ReconstructPk ==
    /\ row = NoRow
    /\ out = NoOut
    /\ \E curve \in CurveNames, d \in 1..MaxKey, bump \in 0..1 :
       \E sk \in {None} \cup {<<v>> : v \in (0..(MaxKey + 1)) \cup {CURVE_ORDER[curve] + d}} :
           LET cv == CURVE_PARAMS[curve]
               P == point_mul(cv, d, GENERATORS[curve])
               pk == <<P.x, (P.y + bump) % cv.p>>
           IN  out' = [op |-> "reconstruct_pk",
                       args |-> [pk |-> pk, curve |-> curve, sk |-> sk, d |-> d, bump |-> bump]]
                      @@ reconstruct_pk(pk, curve, sk)
    /\ UNCHANGED <<row, stdout>>
    /\ UNCHANGED exceptCore

\* the tables, by the keys they take
NameTables == ("CURVES" :> CURVES) @@ ("ALGS" :> ALGS)

CodeTables == ("CURVES_REVERSED" :> CURVES_REVERSED) @@ ("ALGS_REVERSED" :> ALGS_REVERSED)

StringCodeTables == ("attack.CURVES" :> attack_CURVES) @@ ("attack.ALGS" :> attack_ALGS)

NameProbes == CurveNameProbes \cup AlgNames \cup {"RSA", "ecdsa"}

CodeProbes == 0..33

StringCodeProbes ==
    {CURVES[k] : k \in DOMAIN CURVES} \cup {ALGS[k] : k \in DOMAIN ALGS}
        \cup {<<"0", "x", "0", "0", "1", "9">>, <<"0", "x", "0", "0", "1", "A">>,
              <<"0", "x", "1">>, <<"2", "4">>, <<>>}

\* a name is resolved to its code
ResolveName ==
    /\ row = NoRow
    /\ out = NoOut
    /\ \E t \in DOMAIN NameTables, key \in NameProbes :
           out' = [op |-> "lookup", args |-> [table |-> t, key |-> key]]
                  @@ dict_get(NameTables[t], key)
    /\ UNCHANGED <<row, stdout>>
    /\ UNCHANGED exceptCore

\* a numeric code is resolved to its name
ResolveCode ==
    /\ row = NoRow
    /\ out = NoOut
    /\ \E t \in DOMAIN CodeTables, key \in CodeProbes :
           out' = [op |-> "lookup", args |-> [table |-> t, key |-> key]]
                  @@ dict_get(CodeTables[t], key)
    /\ UNCHANGED <<row, stdout>>
    /\ UNCHANGED exceptCore

\* extract_signatures.py resolves the code in a file name to a name
ResolveStringCode ==
    /\ row = NoRow
    /\ out = NoOut
    /\ \E t \in DOMAIN StringCodeTables, key \in StringCodeProbes :
           out' = [op |-> "lookup", args |-> [table |-> t, key |-> key]]
                  @@ dict_get(StringCodeTables[t], key)
    /\ UNCHANGED <<row, stdout>>
    /\ UNCHANGED exceptCore

Next ==
    \/ Measure \/ LoadRow \/ ComputeNonce \/ VerifySignature
    \/ GetDeviceInfo \/ LoadDeviceRow
    \/ CurveBytes \/ ReconstructPk
    \/ ResolveName \/ ResolveCode \/ ResolveStringCode

Spec == Init /\ [][Next]_vars

(***************************************************************************)
(* Concurrent calls.  Each thread makes one call of compute_nonce,         *)
(* verify_signature, reconstruct_pk or curve_bytes; a call first reads the *)
(* module-level tables it needs and then runs its body, and the steps of   *)
(* different threads interleave.                                           *)
(***************************************************************************)
P256_KEY == point_mul(CURVE_PARAMS["P256"], 2, GENERATORS["P256"])

P256_COMMITMENT == point_mul(CURVE_PARAMS["P256"], 3, GENERATORS["P256"])

\* the calls the threads make
CALLS ==
    << [fn |-> "compute_nonce", r |-> 1, s |-> 1, x |-> 2, e |-> ProperDigest("P256", 1),
        algorithm |-> "ECDSA", curve |-> "P256", revision |-> 138],
       [fn |-> "compute_nonce", r |-> 1, s |-> 0, x |-> 2, e |-> ProperDigest("P256", 1),
        algorithm |-> "ECDSA", curve |-> "P256", revision |-> 138],
       [fn |-> "compute_nonce", r |-> 1, s |-> 1, x |-> 2, e |-> ProperDigest("P384", 1),
        algorithm |-> "ECDAA", curve |-> "P384", revision |-> 136],
       [fn |-> "compute_nonce", r |-> 1, s |-> 1, x |-> 2, e |-> ProperDigest("P256", 1),
        algorithm |-> "ECDSA", curve |-> "secp256k1", revision |-> 138],
       [fn |-> "verify_signature", r |-> 1, s |-> 1, pk |-> P256_KEY,
        e |-> ProperDigest("P256", 1), algorithm |-> "ECDSA", curve |-> "P256",
        revision |-> 138, nonce_point |-> None],
       [fn |-> "verify_signature", r |-> 1, s |-> 1, pk |-> P256_KEY,
        e |-> ProperDigest("P256", 1), algorithm |-> "ECSCHNORR", curve |-> "P256",
        revision |-> 132, nonce_point |-> None],
       [fn |-> "verify_signature", r |-> 1, s |-> 1, pk |-> P256_KEY,
        e |-> ProperDigest("P256", 1), algorithm |-> "ECDAA", curve |-> "P256",
        revision |-> 138, nonce_point |-> None],
       [fn |-> "verify_signature", r |-> 1, s |-> 1, pk |-> P256_KEY,
        e |-> ProperDigest("P256", 1), algorithm |-> "ECDAA", curve |-> "P256",
        revision |-> 135, nonce_point |-> <<P256_COMMITMENT.x, P256_COMMITMENT.y>>],
       [fn |-> "verify_signature", r |-> 1, s |-> 1, pk |-> P256_KEY,
        e |-> ProperDigest("P256", 1), algorithm |-> "SM2", curve |-> "secp256k1",
        revision |-> 138, nonce_point |-> None],
       [fn |-> "reconstruct_pk", pk |-> <<P256_KEY.x, P256_KEY.y>>, curve |-> "P256",
        sk |-> <<2>>],
       [fn |-> "reconstruct_pk", pk |-> <<P256_KEY.x, P256_KEY.y>>, curve |-> "P256",
        sk |-> <<1>>],
       [fn |-> "curve_bytes", curve |-> "P521"],
       [fn |-> "curve_bytes", curve |-> "secp256k1"] >>

\* the call as it runs with no other call beside it
RunAlone(call) ==
    CASE call.fn = "compute_nonce" ->
             compute_nonce(call.r, call.s, call.x, call.e, call.algorithm, call.curve,
                           call.revision)
      [] call.fn = "verify_signature" ->
             verify_signature(call.r, call.s, call.pk, call.e, call.algorithm, call.curve,
                              call.revision, call.nonce_point)
      [] call.fn = "reconstruct_pk" -> reconstruct_pk(call.pk, call.curve, call.sk)
      [] call.fn = "curve_bytes" -> Return(curve_bytes(call.curve))

\* the writes the call makes to standard output
Printed(call) ==
    IF call.fn = "verify_signature"
    THEN verify_signature_printed(call.algorithm, call.curve, call.nonce_point)
    ELSE <<>>

\* the tables the call reads before its body: CURVE_ORDER[curve] in
\* compute_nonce (after the choice of the formula by algorithm), CURVE_ORDER
\* and GENERATORS in verify_signature, GENERATORS in reconstruct_pk, none in
\* curve_bytes
ReadTables(call, tables) ==
    CASE call.fn = "compute_nonce" ->
             IF call.algorithm \notin AlgNames THEN Raise("KeyError: algorithm")
             ELSE IF call.curve \notin DOMAIN tables.CURVE_ORDER THEN Raise("KeyError: curve")
             ELSE Return([n |-> tables.CURVE_ORDER[call.curve], g |-> IDENTITY_ELEMENT])
      [] call.fn = "verify_signature" ->
             IF call.curve \notin DOMAIN tables.CURVE_ORDER THEN Raise("KeyError: curve")
             ELSE IF call.curve \notin DOMAIN tables.GENERATORS THEN Raise("KeyError: curve")
             ELSE Return([n |-> tables.CURVE_ORDER[call.curve],
                          g |-> tables.GENERATORS[call.curve]])
      [] call.fn = "reconstruct_pk" ->
             IF call.curve \notin DOMAIN tables.GENERATORS THEN Raise("KeyError: curve")
             ELSE Return([n |-> 0, g |-> tables.GENERATORS[call.curve]])
      [] call.fn = "curve_bytes" -> Return([n |-> 0, g |-> IDENTITY_ELEMENT])

\* the body of the call on the table entries n and g it has read
RunBody(call, n, g) ==
    CASE call.fn = "compute_nonce" ->
             LET nonce == nonce_dispatch(call.algorithm, call.revision, n,
                                         call.r, call.s, call.x, call.e)
             IN  IF nonce.tag = "raise" THEN nonce ELSE encode_nonce(nonce.val, call.curve)
      [] call.fn = "verify_signature" ->
             LET n_bytes == curve_bytes(call.curve)
             IN  CASE call.algorithm = "ECDSA" ->
                          verify_ecdsa(call.r, call.s, call.pk, call.e, call.curve, n_bytes, n, g)
                   [] call.algorithm = "ECSCHNORR" ->
                          verify_ecschnorr(call.r, call.s, call.pk, call.e, call.curve,
                                           call.revision, n_bytes, n, g)
                   [] call.algorithm = "SM2" -> verify_sm2
                   [] call.algorithm = "ECDAA" ->
                          verify_ecdaa(call.r, call.s, call.pk, call.e, call.curve,
                                       call.revision, call.nonce_point, n, g)
                   [] OTHER -> Raise("KeyError: algorithm")
      [] call.fn = "reconstruct_pk" ->
             LET point == Point(CURVE_PARAMS[call.curve], call.pk[1], call.pk[2])
             IN  IF point.tag = "raise" THEN point
                 ELSE IF call.sk # None
                         /\ point_mul(CURVE_PARAMS[call.curve], call.sk[1], g) # point.val
                 THEN Raise("AssertionError")
                 ELSE point
      [] call.fn = "curve_bytes" -> Return(curve_bytes(call.curve))

InitConc == InitCore /\ IdleConc /\ IdleBatch /\ IdleDb

\* a thread enters a call
Call(t) ==
    /\ threads[t].pc = "idle"
    /\ \E i \in 1..Len(CALLS) :
           threads' = [threads EXCEPT ![t] = [@ EXCEPT !.pc = "called", !.call = i]]
    /\ UNCHANGED <<stdout, registries, exceptConc>>

\* the call reads the tables; a missing key ends it
Read(t) ==
    /\ threads[t].pc = "called"
    /\ LET entries == ReadTables(CALLS[threads[t].call], registries)
       IN  threads' = [threads EXCEPT ![t] =
                          IF entries.tag = "raise"
                          THEN [@ EXCEPT !.pc = "done", !.result = entries]
                          ELSE [@ EXCEPT !.pc = "read", !.n = entries.val.n,
                                         !.g = entries.val.g]]
    /\ UNCHANGED <<stdout, registries, exceptConc>>

\* the body of the call runs to its first write to standard output, or to
\* its return when it makes none
Body(t) ==
    /\ threads[t].pc = "read"
    /\ LET call == CALLS[threads[t].call]
       IN  threads' = [threads EXCEPT ![t] =
                          IF Printed(call) = <<>>
                          THEN [@ EXCEPT !.pc = "done",
                                         !.result = RunBody(call, threads[t].n, threads[t].g)]
                          ELSE [@ EXCEPT !.pc = "printing", !.pending = Printed(call)]]
    /\ UNCHANGED <<stdout, registries, exceptConc>>

\* one write of a print reaches standard output; the interpreter may switch
\* threads between the write of the text and the write of the line end
Write(t) ==
    /\ threads[t].pc = "printing"
    /\ threads[t].pending # <<>>
    /\ stdout' = Append(stdout, Head(threads[t].pending))
    /\ threads' = [threads EXCEPT ![t].pending = Tail(@)]
    /\ UNCHANGED <<registries, exceptConc>>

\* the call returns after its print
ReturnCall(t) ==
    /\ threads[t].pc = "printing"
    /\ threads[t].pending = <<>>
    /\ LET call == CALLS[threads[t].call]
       IN  threads' = [threads EXCEPT ![t] =
                          [@ EXCEPT !.pc = "done",
                                    !.result = RunBody(call, threads[t].n, threads[t].g)]]
    /\ UNCHANGED <<stdout, registries, exceptConc>>

StartCall == \E t \in Threads : Call(t)

ReadRegistries == \E t \in Threads : Read(t)

RunCall == \E t \in Threads : Body(t)

WriteStdout == \E t \in Threads : Write(t)

EndCall == \E t \in Threads : ReturnCall(t)

NextConc == StartCall \/ ReadRegistries \/ RunCall \/ WriteStdout \/ EndCall

SpecConc == InitConc /\ [][NextConc]_vars

(***************************************************************************)
(* Batch creation: a consumer calls create_all of a FileAdapterFactory on  *)
(* a sequence of resources and takes the measurements one by one.          *)
(***************************************************************************)
\* the longest sequence of resources
MaxResources == 3

ResourceNames == {A_ZIP, C_ZIP, LIST_TXT, GONE_TXT, STDIN, NOTES_MD, OLD_FMT}

RECURSIVE SeqsUpTo(_, _)
SeqsUpTo(S, n) ==
    IF n = 0 THEN {<<>>}
    ELSE LET shorter == SeqsUpTo(S, n - 1)
         IN  shorter \cup {Append(q, x) : q \in shorter, x \in S}

InitBatch == InitCore /\ IdleConc /\ IdleBatch /\ IdleDb

\* create_all(resources): the generator is made, nothing of it runs
CreateAll ==
    /\ gen.status = "none"
    /\ \E rs \in SeqsUpTo(ResourceNames, MaxResources) : resources' = rs
    /\ gen' = Created
    /\ UNCHANGED <<files, log, delivered, exceptBatch>>

\* the consumer takes the next measurement: next() on the generator
NextCandidate ==
    /\ gen.status = "suspended"
    /\ LET after == create_all_next(resources, gen, files, log)
       IN  /\ gen' = after.gen
           /\ files' = after.files
           /\ log' = after.log
           /\ delivered' = delivered \o after.yielded
    /\ UNCHANGED <<resources, exceptBatch>>

NextBatch == CreateAll \/ NextCandidate

SpecBatch == InitBatch /\ [][NextBatch]_vars

(***************************************************************************)
(* Calls on a Database.Handle and on the aggregators, details and factory  *)
(* made on it, within the with-block of Database.connect.  out is the last *)
(* call with its outcome.                                                  *)
(***************************************************************************)
MaxCalls == 3

InitDb ==
    /\ InitCore /\ IdleConc /\ IdleBatch
    /\ session \in {EmptySession, StoredSession}
    /\ cache = EmptyCache
    /\ handle_tables = EmptyTables /\ executed = NoneExecuted /\ calls = 0
    /\ generator = NO_GENERATOR

\* the stored measurements: each Optional column NULL or not
OPTIONAL_STRINGS == {None, <<"IFX">>}

\* the firmware of a Measurement: None, a Decimal loaded from the row, or
\* the int of an object that was made and not loaded since
FIRMWARES == {None, <<Decimal(7, 0)>>, <<Decimal(25, -1)>>, <<Decimal(35, -1)>>, <<Integer(7)>>}

MEASUREMENTS ==
    [platform : OPTIONAL_STRINGS, vendor : OPTIONAL_STRINGS,
     vendor_string : OPTIONAL_STRINGS, firmware : FIRMWARES]

\* the TPM data of the measurements that are inserted: none, a platform
\* alone, or all of it
TPM_DATA ==
    {None, <<TPMData(<<"IFX">>, None, None, None)>>,
     <<TPMData(<<"IFX">>, <<"IFX">>, <<"SLB9670">>, <<7>>)>>}

\* the details that are inserted: a measurement with one value of Perf_RSA,
\* one of another source with a platform, two values of Perf_RSA and no
\* values of Perf_ECDSA, and one of another host with the source of the
\* first and no algorithm
DETAILS ==
    {[host_name |-> "host-a", stamp |-> 1, source |-> "a.zip", tpm_data |-> None,
      list_perf |-> {"Perf_RSA"},
      get_perf |-> [name \in ALGORITHM_NAMES |->
                       IF name = "Perf_RSA" THEN <<<<12>>>> ELSE None]],
     [host_name |-> "host-a", stamp |-> 2, source |-> "b.zip",
      tpm_data |-> <<TPMData(<<"IFX">>, None, None, None)>>,
      list_perf |-> {"Perf_RSA", "Perf_ECDSA"},
      get_perf |-> [name \in ALGORITHM_NAMES |->
                       IF name = "Perf_RSA" THEN <<<<12, 20>>>> ELSE None]],
     [host_name |-> "host-b", stamp |-> 1, source |-> "a.zip",
      tpm_data |-> <<TPMData(<<"IFX">>, <<"IFX">>, <<"SLB9670">>, <<7>>)>>,
      list_perf |-> {},
      get_perf |-> [name \in ALGORITHM_NAMES |-> None]]}

\* the orders in which a set is iterated
Orders(set) ==
    {order \in [1..Cardinality(set) -> set] :
        \A i, j \in 1..Cardinality(set) : order[i] = order[j] => i = j}

\* the Device objects the caller can hold: pending, stored, or served by
\* the cache
Devices ==
    {session.new[i] : i \in {j \in 1..Len(session.new) : session.new[j].cls = "Device"}}
        \cup {session.rows[i] : i \in {j \in 1..Len(session.rows) :
                                          session.rows[j].cls = "Device"}}
        \cup UNION {{cache[<<"Device", h>>].value[i] :
                        i \in 1..Len(cache[<<"Device", h>>].value)} : h \in HOSTNAMES}

\* the Measurement entities the caller has a DBMeasurement of: those that
\* handle.measurement returned and the generators of factory.execute and
\* factory.create yielded on this session, pending or stored, each as the
\* object the session has of it
Measurements ==
    {object_of(session, e) :
        e \in {r \in {session.rows[i] : i \in 1..Len(session.rows)}
                         \cup {session.new[i] : i \in 1..Len(session.new)} :
                  r.cls = "Measurement" /\ r.oid \in session.held}}

\* the resources given to the factory: the database, a constraint, the
\* empty constraint, and a file
DB_RESOURCES == {AT_DB, DB_PREFIX \o SQL_FALSE, DB_PREFIX, A_ZIP}

\* a call on the handle is made: its outcome goes to out and the session is
\* as the call leaves it
OnSession(op, args, result) ==
    /\ calls < MaxCalls
    /\ calls' = calls + 1
    /\ out' = [op |-> op, args |-> args, tag |-> result.tag, val |-> result.val]
    /\ session' = result.session

\* the same for a call that goes through the cache
OnCache(op, args, result) ==
    /\ OnSession(op, args, result)
    /\ cache' = result.cache

\* the same for a call of compute for a pair
OnTables(op, args, pair, result) ==
    /\ calls < MaxCalls
    /\ calls' = calls + 1
    /\ out' = [op |-> op, args |-> args, tag |-> result.tag, val |-> result.val,
               before |-> handle_tables, executed |-> result.executed]
    /\ handle_tables' = result.tables
    /\ session' = result.session
    /\ executed' = IF result.executed THEN [executed EXCEPT ![pair] = @ + 1] ELSE executed

\* a call that makes no statement
OffSession(op, args, result) ==
    /\ calls < MaxCalls
    /\ calls' = calls + 1
    /\ out' = [op |-> op, args |-> args] @@ result

\* handle.machine(hostname)
Machine ==
    /\ \E hostname \in HOSTNAMES :
           OnCache("machine", [key |-> hostname], Handle_machine(session, cache, hostname))
    /\ UNCHANGED <<handle_tables, executed, generator, exceptDb>>

\* handle.algorithm(name)
Algorithm ==
    /\ \E name \in ALGORITHM_NAMES :
           OnCache("algorithm", [key |-> name], Handle_algorithm(session, cache, name))
    /\ UNCHANGED <<handle_tables, executed, generator, exceptDb>>

\* handle.measurement(device, stamp, source, tpm_data)
HandleMeasurement ==
    /\ \E device \in Devices, source \in SOURCES, tpm_data \in TPM_DATA :
           OnSession("measurement", [key |-> source, device |-> device],
                     kept(Handle_measurement(session, device, 1, source, tpm_data)))
    /\ UNCHANGED <<cache, handle_tables, executed, generator, exceptDb>>

\* the detail as insert reads it: list_perf() iterated in the order, and
\* get_perf of every name
Read_detail(detail, order) ==
    [host_name |-> detail.host_name, stamp |-> detail.stamp, source |-> detail.source,
     tpm_data |-> detail.tpm_data,
     perf |-> [i \in DOMAIN order |->
                  [name |-> order[i], values |-> detail.get_perf[order[i]]]]]

\* handle.insert(detail), the set detail.list_perf() iterated in any order
Insert ==
    /\ \E detail \in DETAILS :
       \E order \in Orders(detail.list_perf) :
           OnCache("insert", [key |-> detail.source, order |-> order],
                   Handle_insert(session, cache, Read_detail(detail, order)))
    /\ UNCHANGED <<handle_tables, executed, generator, exceptDb>>

\* handle.exists(measurement)
Exists ==
    /\ \E source \in SOURCES, orm_enabled \in BOOLEAN :
           OnSession("exists", [key |-> source], Handle_exists(session, source, orm_enabled))
    /\ UNCHANGED <<cache, handle_tables, executed, generator, exceptDb>>

\* handle.commit()
Commit ==
    /\ OnSession("commit", None, Handle_commit(session))
    /\ UNCHANGED <<cache, handle_tables, executed, generator, exceptDb>>

\* the with-block of Database.connect is left and the next one entered:
\* session.close(), then a new Session and a new Handle; the cache file
\* stays, the generator of the old handle is dropped
Connect ==
    /\ calls < MaxCalls
    /\ calls' = calls + 1
    /\ session' = Session_close(session)
    /\ handle_tables' = EmptyTables
    /\ executed' = NoneExecuted
    /\ generator' = NO_GENERATOR
    /\ out' = [op |-> "connect", args |-> None, tag |-> "return", val |-> None]
    /\ UNCHANGED <<cache, exceptDb>>

\* time passes without a call: the oldest value of the region is now older
\* than expiration_time, an hour after it was stored
Expire ==
    /\ \E key \in CacheKeys :
           /\ cache[key].present /\ cache[key].stored = 1
           /\ cache' = deleted(cache, key)
    /\ UNCHANGED <<out, session, handle_tables, executed, generator, calls, exceptDb>>

\* ORMCache.invalidate(statement, parameters, opt) for the statement and the
\* parameters of a key: dogpile_region.delete(cache_key)
Invalidate ==
    /\ calls < MaxCalls
    /\ calls' = calls + 1
    /\ \E key \in CacheKeys :
           /\ cache' = deleted(cache, key)
           /\ out' = [op |-> "invalidate", args |-> [cls |-> key[1], key |-> key[2]],
                      tag |-> "return", val |-> None]
    /\ UNCHANGED <<session, handle_tables, executed, generator, exceptDb>>

\* DBAggregator(detail, algorithm).compute(aggregate, query)
Compute ==
    /\ \E aggregate \in AGGREGATES, algorithm \in ALGORITHM_NAMES :
           OnTables("compute", [aggregate |-> aggregate, algorithm |-> algorithm],
                    <<aggregate, algorithm>>,
                    DBAggregator_compute(handle_tables, session, aggregate, algorithm))
    /\ UNCHANGED <<cache, generator, exceptDb>>

\* DBAggregator(detail, algorithm).median(), detail being the details of a
\* measurement of the session
Median ==
    /\ \E algorithm \in ALGORITHM_NAMES, entity \in Measurements :
           OnTables("median",
                    [aggregate |-> "median", algorithm |-> algorithm, id |-> entity.oid],
                    <<"median", algorithm>>,
                    DBAggregator_median(handle_tables, session, algorithm, entity))
    /\ UNCHANGED <<cache, generator, exceptDb>>

\* DBAggregator(detail, algorithm).values()
Values ==
    /\ \E algorithm \in ALGORITHM_NAMES, entity \in Measurements :
           OnSession("values", [key |-> algorithm, id |-> entity.oid],
                     DBAggregator_values(session, algorithm, entity))
    /\ UNCHANGED <<cache, handle_tables, executed, generator, exceptDb>>

\* DBMeasurement(handle, entity).detail.list_perf()
ListPerf ==
    /\ \E entity \in Measurements :
           OnSession("list_perf", [id |-> entity.oid],
                     Details_list_perf(session, entity))
    /\ UNCHANGED <<cache, handle_tables, executed, generator, exceptDb>>

\* DBMeasurement(handle, entity).detail.get_perf(alg)
GetPerf ==
    /\ \E algorithm \in ALGORITHM_NAMES, entity \in Measurements :
           OffSession("get_perf", [key |-> algorithm, id |-> entity.oid], Details_get_perf)
    /\ UNCHANGED <<session, cache, handle_tables, executed, generator, exceptDb>>

\* the columns of a measurement that tpm_data reads
Columns(entity) ==
    [f \in {"platform", "vendor", "vendor_string", "firmware"} |-> entity[f]]

\* DBMeasurement(handle, entity).detail.tpm_data() on a measurement of the
\* session
StoredTpmData ==
    /\ \E entity \in Measurements :
           OnSession("tpm_data", [entity |-> Columns(entity), id |-> entity.oid],
                     DBMeasurement_tpm_data(session, entity))
    /\ UNCHANGED <<cache, handle_tables, executed, generator, exceptDb>>

\* DBMeasurement(handle, entity).detail.source
Source ==
    /\ \E entity \in Measurements :
           OnSession("source", [id |-> entity.oid], Details_source(session, entity))
    /\ UNCHANGED <<cache, handle_tables, executed, generator, exceptDb>>

\* DBMeasurement(handle, entity).detail.host_name
HostName ==
    /\ \E entity \in Measurements :
           OnSession("host_name", [id |-> entity.oid], Details_host_name(session, entity))
    /\ UNCHANGED <<cache, handle_tables, executed, generator, exceptDb>>

\* DBMeasurement(handle, entity).detail.stamp
Stamp ==
    /\ \E entity \in Measurements :
           OnSession("stamp", [id |-> entity.oid], Details_stamp(session, entity))
    /\ UNCHANGED <<cache, handle_tables, executed, generator, exceptDb>>

\* the same on a Measurement whose columns are all loaded, with any columns:
\* no statement is made
TpmData ==
    /\ calls = 0
    /\ \E entity \in MEASUREMENTS :
           OffSession("tpm_data", [entity |-> entity], Details_tpm_data(entity))
    /\ UNCHANGED <<session, cache, handle_tables, executed, generator, exceptDb>>

\* a call of a generator function of the factory: the generator is made,
\* none of its body runs and no statement is made
Generate(kind, algorithm, rs) ==
    /\ calls < MaxCalls
    /\ calls' = calls + 1
    /\ generator' = Generator(kind, algorithm, rs)
    /\ out' = [op |-> kind, args |-> [key |-> algorithm, resources |-> rs],
               tag |-> "return", val |-> "generator"]

\* factory.execute(query)
Execute ==
    /\ \E query \in {SQL_TRUE, SQL_FALSE} : Generate("execute", "none", query)
    /\ UNCHANGED <<session, cache, handle_tables, executed, exceptDb>>

\* factory.create(resource); the empty constraint, which is no SQL, is left
\* out
Create ==
    /\ \E resource \in DB_RESOURCES \ {DB_PREFIX} : Generate("create", "none", resource)
    /\ UNCHANGED <<session, cache, handle_tables, executed, exceptDb>>

\* factory.stats(algorithm, resources)
Stats ==
    /\ \E algorithm \in ALGORITHM_NAMES, rs \in DB_RESOURCES : Generate("stats", algorithm, rs)
    /\ UNCHANGED <<session, cache, handle_tables, executed, exceptDb>>

\* factory.box_stats(algorithm, resources)
BoxStats ==
    /\ \E algorithm \in ALGORITHM_NAMES, rs \in DB_RESOURCES :
           Generate("box_stats", algorithm, rs)
    /\ UNCHANGED <<session, cache, handle_tables, executed, exceptDb>>

\* the generator yields a value and is suspended, the rows left in the
\* result
Suspend(value, s, rows) ==
    /\ out' = [op |-> "next", args |-> [kind |-> generator.kind, status |-> generator.status],
               tag |-> "return", val |-> value]
    /\ session' = s
    /\ generator' = [generator EXCEPT !.status = "suspended", !.rows = rows]

\* the generator ends: its body raises, or returns, which raises
\* StopIteration
Finish(exception, s) ==
    /\ out' = [op |-> "next", args |-> [kind |-> generator.kind, status |-> generator.status],
               tag |-> "raise", val |-> exception]
    /\ session' = s
    /\ generator' = [generator EXCEPT !.status = "finished", !.rows = {}]

\* the body of the loop of stats and box_stats for a row: device =
\* self.session.get(Device, row[0]), assert device is not None, and the
\* yield
Loop_body(r, rows, device) ==
    IF device.tag = "raise" THEN Finish(device.val, device.session)
    ELSE IF device.val = None THEN Finish("AssertionError", device.session)
    ELSE Suspend(yielded(generator.kind, device.val[1], r), device.session, rows \ {r})

\* the body of the loop of execute for a measurement of the list: yield
\* DBMeasurement(self.handle, measurement), which the caller has from then
\* on; no statement is made
Loop_measurement(r, rows, s) ==
    Suspend(DBMeasurement(r.id), [s EXCEPT !.held = @ \cup {r.id}], rows \ {r})

\* the loop over the result: the next row is fetched, or there is none
Loop(s, rows) ==
    IF rows = {} THEN Finish("StopIteration", s)
    ELSE \E r \in next_rows(rows) :
             IF generator.kind \in MEASUREMENT_KINDS THEN Loop_measurement(r, rows, s)
             ELSE Loop_body(r, rows, Session_get(s, "Device", r.id))

\* the first resumption, when the statement has run: the loop is entered
\* over self.session.execute(query).yield_per(64), or over the list of
\* execute
Executed(done) ==
    IF done.tag = "raise" THEN Finish(done.val, done.session)
    ELSE IF generator.kind \in MEASUREMENT_KINDS THEN Loop(done.session, listed(done.val))
    ELSE Loop(done.session, generator_rows(generator, done.session))

\* next(generator), also as a for loop and list() make it: the body runs to
\* the next yield or to its end
NextRow ==
    /\ generator.status # "none"
    /\ CASE generator.status = "created" -> Executed(started(generator, session))
         [] generator.status = "suspended" -> Loop(session, generator.rows)
         [] generator.status = "finished" -> Finish("StopIteration", session)
    /\ UNCHANGED <<cache, handle_tables, executed, calls, exceptDb>>

NextDb ==
    \/ Machine \/ Algorithm \/ HandleMeasurement \/ Insert \/ Exists \/ Commit \/ Connect
    \/ Expire \/ Invalidate \/ Compute \/ Median \/ Values \/ ListPerf \/ GetPerf
    \/ Source \/ HostName \/ Stamp
    \/ StoredTpmData \/ TpmData \/ Execute \/ Create \/ Stats \/ BoxStats \/ NextRow

SpecDb == InitDb /\ [][NextDb]_vars

(***************************************************************************)
(* Properties.                                                             *)
(***************************************************************************)
N == CURVE_ORDER[row.curve]

Computed == out.op = "compute_nonce"

Verified == out.op = "verify_signature"

Genuine == row.k # 0 /\ row.signed = row.revision

\* hexchars is a hex string of 2 * width characters that writes the integer v
Encodes(hexchars, v, width) ==
    /\ Len(hexchars) = 2 * width
    /\ IsHex(hexchars)
    /\ hex_value(hexchars) = v

\* the integer a returned nonce writes
NonceValue == hex_value(out.val)

\* C1: a genuine ECDSA, ECSCHNORR or ECDAA (with commitment) signature, made
\* with private scalar x and nonce k, is reported valid by verify_signature
\* called with pk = x*G and the same digest, curve, algorithm and revision.
C1_RoundTripValid ==
    (Verified /\ Genuine /\ row.algorithm \in {"ECDSA", "ECSCHNORR", "ECDAA"})
        => (out.tag = "return" /\ out.val = TRUE)

\* C2: on a genuine row (any of the four algorithms, any revision)
\* compute_nonce returns the fixed-width encoding of exactly the signer's k.
C2_NonceRecovered ==
    (Computed /\ Genuine)
        => (out.tag = "return" /\ Encodes(out.val, row.k, curve_bytes(row.curve)))

C2_Witness ==
    /\ Computed /\ Genuine
    /\ row.algorithm = "ECDAA" /\ row.revision >= 136
    /\ row.k > 1 /\ row.x > 1 /\ row.r > 0
    /\ out.tag = "return" /\ NonceValue = row.k

\* the integer the whole digest writes, and the one its first
\* 2 * curve_bytes(curve) characters write
WholeDigest == hex_value(row.e)

TruncatedDigest ==
    hex_value(SubSeq(row.e, 1,
        IF Len(row.e) < 2 * curve_bytes(row.curve) THEN Len(row.e)
        ELSE 2 * curve_bytes(row.curve)))

DigestIsHex == Len(row.e) > 0 /\ Len(row.e) % 2 = 0 /\ IsHex(row.e)

\* C3: for ECDSA and s invertible modulo n, compute_nonce returns the k in
\* [0, n) with k * s = e + r * x (mod n), e the integer the whole digest writes.
C3_EcdsaNonce ==
    (Computed /\ row.algorithm = "ECDSA" /\ row.s % N # 0 /\ DigestIsHex)
        => /\ out.tag = "return"
           /\ NonceValue \in 0..(N - 1)
           /\ (NonceValue * row.s) % N = (WholeDigest + row.r * row.x) % N

C3_Witness ==
    /\ Computed /\ row.algorithm = "ECDSA"
    /\ row.s % N > 1 /\ row.r % N # 0 /\ row.x > 1
    /\ Len(row.e) > 2 * curve_bytes(row.curve) /\ WholeDigest # TruncatedDigest
    /\ out.tag = "return" /\ NonceValue > 1

\* C4: for ECSCHNORR, at every revision, compute_nonce returns the k in [0, n)
\* with k + r * x = s (mod n), also when r * x mod n is larger than s.
C4_EcschnorrNonce ==
    (Computed /\ row.algorithm = "ECSCHNORR")
        => /\ out.tag = "return"
           /\ NonceValue \in 0..(N - 1)
           /\ (NonceValue + row.r * row.x) % N = row.s % N

C4_Witness ==
    /\ Computed /\ row.algorithm = "ECSCHNORR"
    /\ (row.r * row.x) % N > row.s
    /\ out.tag = "return" /\ NonceValue > 0

\* C5: for SM2, at every revision, compute_nonce returns (s + s*x + r*x) mod n.
C5_Sm2Nonce ==
    (Computed /\ row.algorithm = "SM2")
        => /\ out.tag = "return"
           /\ NonceValue = (row.s + row.s * row.x + row.r * row.x) % N

C5_Witness ==
    /\ Computed /\ row.algorithm = "SM2"
    /\ row.s % N # 0 /\ row.r % N # 0 /\ row.x > 1
    /\ row.s + row.s * row.x + row.r * row.x > N
    /\ out.tag = "return" /\ NonceValue > 0

\* h of the hash-based ECDAA formula: SHA-256 of r on ceil(log2(n)/8)
\* big-endian bytes followed by the digest bytes, modulo n
EcdaaH == tpm_hash(be_bytes(row.r, log2_bytes(N)) \o hex_pairs(row.e), N)

\* what compute_nonce gives for ECSCHNORR on the row's r, s, x, digest, curve
SchnorrOnRow ==
    compute_nonce(row.r, row.s, row.x, row.e, "ECSCHNORR", row.curve, row.revision)

\* C6: for ECDAA below revision 1.36 compute_nonce returns exactly what it
\* returns for ECSCHNORR on the same inputs; from 1.36 on its result equals
\* the ECSCHNORR one only when h = r (mod n) or x = 0 (mod n).
C6_EcdaaVersusEcschnorr ==
    (Computed /\ row.algorithm = "ECDAA" /\ DigestIsHex)
        => /\ out.tag = "return"
           /\ row.revision < 136 => out.val = SchnorrOnRow.val
           /\ row.revision >= 136 =>
                  ((out.val = SchnorrOnRow.val)
                       <=> (EcdaaH = row.r % N \/ row.x % N = 0))

C6_Witness ==
    /\ Computed /\ row.algorithm = "ECDAA" /\ row.revision = 135
    /\ row.x % N # 0 /\ EcdaaH # row.r % N /\ row.s % N # 0
    /\ out.tag = "return" /\ out.val = SchnorrOnRow.val

\* C7: for ECDAA from revision 1.36 on, compute_nonce returns the k in [0, n)
\* with k + h * x = s (mod n), h as in EcdaaH.
C7_EcdaaHashNonce ==
    (Computed /\ row.algorithm = "ECDAA" /\ row.revision >= 136 /\ DigestIsHex)
        => /\ out.tag = "return"
           /\ NonceValue \in 0..(N - 1)
           /\ (NonceValue + EcdaaH * row.x) % N = row.s % N

C7_Witness ==
    /\ Computed /\ row.algorithm = "ECDAA" /\ row.revision >= 136
    /\ row.x > 1 /\ row.r > 0 /\ EcdaaH # row.r % N /\ EcdaaH # 0
    /\ WholeDigest # 0
    /\ out.tag = "return" /\ NonceValue > 0

\* C8: in the ECDSA path, s = 0 (mod n) makes compute_nonce fail with the
\* modular-inverse error; no nonce is returned.
C8_EcdsaZeroS ==
    (Computed /\ row.algorithm = "ECDSA" /\ row.s % N = 0 /\ DigestIsHex)
        => /\ out.tag = "raise"
           /\ out.val = "ValueError: base is not invertible for the given modulus"

C8_Witness ==
    /\ Computed /\ row.algorithm = "ECDSA" /\ row.s = N /\ row.r # 0 /\ row.x # 0
    /\ out.tag = "raise"

\* curve_bytes(curve) bytes hold every value below the order of the curve
WidthHoldsOrder == \A c \in CurveNames : CURVE_ORDER_BITS[c] <= 8 * curve_bytes(c)

\* C9: a nonce that compute_nonce returns is a hex string of exactly
\* 2 * curve_bytes(curve) characters writing the extracted nonce, which is in
\* [0, n); curve_bytes(curve) bytes hold every value below the curve's order.
C9_FixedWidthNonce ==
    /\ WidthHoldsOrder
    /\ (Computed /\ out.tag = "return")
           => /\ Len(out.val) = 2 * curve_bytes(row.curve)
              /\ IsHex(out.val)
              /\ NonceValue \in 0..(N - 1)
              /\ NonceValue = nonce_dispatch(row.algorithm, row.revision, N,
                                             row.r, row.s, row.x, row.e).val
    /\ (Computed /\ out.tag = "raise")
           => nonce_dispatch(row.algorithm, row.revision, N,
                             row.r, row.s, row.x, row.e).tag = "raise"

C9_Witness ==
    /\ Computed /\ out.tag = "return" /\ row.curve = "P521"
    /\ Len(out.val) = 132 /\ NonceValue = N - 1

\* the inverse of s modulo n, found by search
InverseOfS == CHOOSE w \in 1..(N - 1) : (w * row.s) % N = 1

\* R' = (s^-1 * e)*G + (r * s^-1)*PK as one multiple of G, PK being d*G
RPrime ==
    point_mul(CURVE_PARAMS[row.curve],
              (InverseOfS * TruncatedDigest + row.r * InverseOfS * row.d) % N,
              GENERATORS[row.curve])

\* C10: for ECDSA and s invertible modulo n, verify_signature reports valid
\* exactly when the x-coordinate of R' equals r, e being the integer the first
\* 2 * curve_bytes(curve) digest characters write.
C10_EcdsaVerify ==
    (Verified /\ row.algorithm = "ECDSA" /\ row.s % N # 0 /\ DigestIsHex)
        => /\ out.tag = "return"
           /\ (out.val = TRUE) <=> (RPrime.x = row.r)

C10_Witness ==
    /\ Verified /\ row.algorithm = "ECDSA" /\ row.s % N # 0
    /\ Len(row.e) > 2 * curve_bytes(row.curve) /\ WholeDigest % N # TruncatedDigest % N
    /\ row.r # 0
    /\ out.tag = "return" /\ out.val = TRUE

\* K = s*G - r*PK as one multiple of G, PK being d*G
SchnorrK ==
    point_mul(CURVE_PARAMS[row.curve], (row.s - row.r * row.d) % N, GENERATORS[row.curve])

\* r' of the ECSCHNORR convention of a revision, from the x-coordinate of K
SchnorrRPrime(revision) == tpm_schnorr_r(SchnorrK.x, row.e, row.curve, revision, N)

\* C11 (as stated): for ECSCHNORR, verify_signature reports valid exactly when
\* r = integer(hash) mod n, the hash taken over K = s*G - r*PK in the
\* convention of the revision (from 1.33: K.x on curve_bytes bytes, then the
\* digest, truncated to curve_bytes bytes; before: the digest, then K.x
\* without leading zero bytes, not truncated).
C11_EcschnorrVerify ==
    (Verified /\ row.algorithm = "ECSCHNORR" /\ DigestIsHex)
        => /\ out.tag = "return"
           /\ (out.val = TRUE) <=> (row.r = SchnorrRPrime(row.revision))

\* C11 (where the code gives a verdict): the same, K.x = 0 below revision
\* 1.33 left out; there the call raises IndexError.
C11_EcschnorrVerifyOffZero ==
    (Verified /\ row.algorithm = "ECSCHNORR" /\ DigestIsHex)
        => IF row.revision < 133 /\ SchnorrK.x = 0
           THEN out.tag = "raise" /\ out.val = "IndexError: index out of range"
           ELSE /\ out.tag = "return"
                /\ (out.val = TRUE) <=> (row.r = SchnorrRPrime(row.revision))

C11_Witness ==
    /\ Verified /\ row.algorithm = "ECSCHNORR" /\ row.revision >= 133
    /\ row.curve = "P192" /\ ~Genuine /\ row.r # 0 /\ SchnorrK.x # 0
    /\ out.tag = "return" /\ out.val = TRUE

C11_WitnessStripped ==
    /\ Verified /\ row.algorithm = "ECSCHNORR" /\ row.revision < 133
    /\ SchnorrK.x = 0 /\ out.tag = "raise"

\* an ECSCHNORR signature made in the hashing convention of one side of
\* revision 1.33 and verified under a revision of the other side
CrossEra ==
    /\ Verified /\ row.k # 0 /\ row.algorithm = "ECSCHNORR"
    /\ (row.signed < 133) # (row.revision < 133)

\* the nonce point of a genuine row
NoncePoint == point_mul(CURVE_PARAMS[row.curve], row.k, GENERATORS[row.curve])

\* the two conventions give the same r for the row's nonce point and digest
ConventionsCollide ==
    tpm_schnorr_r(NoncePoint.x, row.e, row.curve, row.signed, N)
        = tpm_schnorr_r(NoncePoint.x, row.e, row.curve, row.revision, N)

\* C12 (as stated): an ECSCHNORR signature constructed in the pre-1.33
\* convention is reported invalid under a revision >= 1.33, and one
\* constructed in the post-1.33 convention is reported invalid under a
\* revision < 1.33, unless the two hashes collide modulo n.
C12_CrossEraInvalid ==
    CrossEra => (out.tag = "return" /\ (out.val = FALSE \/ ConventionsCollide))

\* C12 (where the code gives a verdict): the same, except that below revision
\* 1.33 a nonce point with x = 0 makes the call raise IndexError.
C12_CrossEraInvalidOffZero ==
    CrossEra => IF row.revision < 133 /\ NoncePoint.x = 0
                THEN out.tag = "raise"
                ELSE out.tag = "return" /\ (out.val = TRUE <=> ConventionsCollide)

C12_Witness ==
    /\ CrossEra /\ row.signed < 133 /\ row.revision >= 133
    /\ ~ConventionsCollide /\ out.tag = "return" /\ out.val = FALSE

C12_WitnessBackward ==
    /\ CrossEra /\ row.signed >= 133 /\ row.revision < 133
    /\ ~ConventionsCollide /\ out.tag = "return" /\ out.val = FALSE

\* t of ECDAA verification as the claim gives it
EcdaaT == IF row.revision >= 136 THEN EcdaaH ELSE row.r

\* s*G - t*PK as one multiple of G, PK being d*G
EcdaaLeft ==
    point_mul(CURVE_PARAMS[row.curve], (row.s - EcdaaT * row.d) % N, GENERATORS[row.curve])

\* C13: for ECDAA with a nonce commitment, verify_signature reports valid
\* exactly when s*G - t*PK is the commitment point, t = r below revision 1.36
\* and t = SHA-256(r on ceil(log2(n)/8) big-endian bytes, digest bytes) mod n
\* from 1.36 on.
C13_EcdaaVerify ==
    (Verified /\ row.algorithm = "ECDAA" /\ row.nonce_point # None /\ DigestIsHex)
        => /\ out.tag = "return"
           /\ (out.val = TRUE)
                  <=> (EcdaaLeft = [x |-> row.nonce_point[1], y |-> row.nonce_point[2]])

C13_Witness ==
    /\ Verified /\ row.algorithm = "ECDAA" /\ row.nonce_point # None
    /\ row.revision >= 136 /\ row.x > 1 /\ EcdaaH # row.r % N
    /\ out.tag = "return" /\ out.val = TRUE

C13_WitnessInvalid ==
    /\ Verified /\ row.algorithm = "ECDAA" /\ row.nonce_point # None
    /\ row.revision < 136 /\ row.r # 0 /\ out.tag = "return" /\ out.val = FALSE

\* C14 (as stated): for ECDAA without a nonce commitment, verify_signature
\* reports a third outcome, which is neither the valid nor the invalid one.
C14_Indeterminate ==
    (Verified /\ row.algorithm = "ECDAA" /\ row.nonce_point = None)
        => (out.tag = "return" /\ out.val # TRUE /\ out.val # FALSE)

\* C14 (amended): for ECDAA without a nonce commitment, verify_signature
\* prints one warning line and returns True, the value of a valid verdict,
\* for every r, s, pk, digest and revision; it never returns False and never
\* raises.
C14_FailOpen ==
    (Verified /\ row.algorithm = "ECDAA" /\ row.nonce_point = None)
        => /\ out.tag = "return" /\ out.val = TRUE
           /\ stdout = print(NO_NONCE_POINT)

C14_Witness ==
    /\ Verified /\ row.algorithm = "ECDAA" /\ row.nonce_point = None
    /\ ~IsHex(row.e) /\ row.s = N /\ row.revision >= 136
    /\ out.tag = "return" /\ out.val = TRUE /\ stdout = print(NO_NONCE_POINT)

\* C15: for SM2, verify_signature reports valid for every r, s, pk, digest
\* and revision on a known curve, genuine signature or not, and prints nothing.
C15_Sm2AlwaysValid ==
    (Verified /\ row.algorithm = "SM2")
        => (out.tag = "return" /\ out.val = TRUE /\ stdout = <<>>)

C15_Witness ==
    /\ Verified /\ row.algorithm = "SM2" /\ ~Genuine
    /\ row.r = 0 /\ row.s = N /\ ~IsHex(row.e)
    /\ out.tag = "return" /\ out.val = TRUE

\* a digest that is not 2 * curve_bytes(curve) hex characters
Malformed == ~IsHex(row.e) \/ Len(row.e) # 2 * curve_bytes(row.curve)

\* the paths that parse the digest
ParsesDigest ==
    \/ Computed /\ row.algorithm = "ECDSA"
    \/ Computed /\ row.algorithm = "ECDAA" /\ row.revision >= 136
    \/ Verified /\ row.algorithm \in {"ECDSA", "ECSCHNORR"}
    \/ Verified /\ row.algorithm = "ECDAA" /\ row.nonce_point # None /\ row.revision >= 136

\* C17 (as stated): a malformed digest makes compute_nonce and
\* verify_signature fail, for every algorithm and revision; no path returns a
\* nonce or a verdict for it.
C17_MalformedDigestRejected ==
    ((Computed \/ Verified) /\ Malformed) => out.tag = "raise"

\* the digest as verify_ecdsa cuts it
CutToCurve == SubSeq(row.e, 1, IF Len(row.e) < 2 * curve_bytes(row.curve)
                               THEN Len(row.e) ELSE 2 * curve_bytes(row.curve))

\* the parsing path rejects the digest: int(e, 16) in the ECDSA paths,
\* unhexlify(e) in the others
RejectsDigest ==
    /\ ParsesDigest
    /\ IF row.algorithm = "ECDSA"
       THEN int16(IF Computed THEN row.e ELSE CutToCurve).tag = "raise"
       ELSE unhexlify(row.e).tag = "raise"

DigestErrors ==
    {"ValueError: invalid literal for int() with base 16",
     "ValueError: string argument should contain only ASCII characters",
     "binascii.Error: Odd-length string",
     "binascii.Error: Non-hexadecimal digit found"}

\* C17 (what the code does): a digest with a character that is no hex digit
\* makes the call fail exactly on the paths that parse the digest and where
\* the parser (int or unhexlify) rejects it; the other paths return a nonce or
\* a verdict for it.
C17_RejectedWhereParsed ==
    ((Computed \/ Verified) /\ ~IsHex(row.e)) =>
        /\ RejectsDigest => out.tag = "raise"
        /\ ~ParsesDigest => out.tag = "return"
        /\ (out.tag = "raise" /\ out.val \in DigestErrors) => RejectsDigest

\* a digest with a leading blank or sign is parsed by int: the ECDSA paths
\* return a nonce or a verdict for it
C17_WitnessSign ==
    /\ Computed /\ row.algorithm = "ECDSA" /\ row.e[1] = CHAR.minus
    /\ out.tag = "return"

C17_WitnessNonHex ==
    /\ Computed /\ row.algorithm = "ECSCHNORR" /\ ~IsHex(row.e)
    /\ out.tag = "return" /\ NonceValue > 0

C17_WitnessLength ==
    /\ Verified /\ row.algorithm = "ECDSA" /\ IsHex(row.e)
    /\ Len(row.e) > 2 * curve_bytes(row.curve)
    /\ out.tag = "return" /\ out.val = TRUE

\* a call of reconstruct_pk / of curve_bytes is the last call
Reconstructed == out.op = "reconstruct_pk"

Sized == out.op = "curve_bytes"

\* C16: reconstruct_pk on coordinates of a curve point: with a private scalar
\* sk supplied and sk*G another point, the call fails with AssertionError and
\* returns no point; with sk*G that point, or without sk, it returns the
\* point of the given coordinates.  Coordinates off the curve give no point.
C16_KeyConsistency ==
    Reconstructed =>
        LET a == out.args
            n == CURVE_ORDER[a.curve]
        IN  IF a.bump = 0
            THEN IF a.sk # None /\ a.sk[1] % n # a.d % n
                 THEN out.tag = "raise" /\ out.val = "AssertionError"
                 ELSE out.tag = "return" /\ out.val = [x |-> a.pk[1], y |-> a.pk[2]]
            ELSE is_point_on_curve(CURVE_PARAMS[a.curve], a.pk[1], a.pk[2])
                     \/ (out.tag = "raise" /\ out.val = "ValueError: coordinates are not on curve")

C16_Witness ==
    /\ Reconstructed /\ out.args.bump = 0 /\ out.args.sk # None
    /\ out.args.sk[1] # 0 /\ out.args.sk[1] # out.args.d
    /\ out.args.sk[1] < CURVE_ORDER[out.args.curve]
    /\ out.tag = "raise" /\ out.val = "AssertionError"

C16_WitnessMatch ==
    /\ Reconstructed /\ out.args.bump = 0 /\ out.args.sk # None
    /\ out.args.sk[1] > CURVE_ORDER[out.args.curve] /\ out.tag = "return"

\* C18 (as stated): curve_bytes fails for every name that is not exactly one
\* of the 8 supported curve names; it returns no byte length for such a name.
C18_UnknownCurveFails ==
    (Sized /\ out.args.name \notin CurveNames) => out.tag = "raise"

\* C18 (what the code does): for a name that is not one of the 8, curve_bytes
\* returns the length of the first supported name (in the order of the
\* source) that the name contains, and 0 when it contains none; it never
\* fails.
C18_UnknownCurveSized ==
    (Sized /\ out.args.name \notin CurveNames)
        => /\ out.tag = "return"
           /\ out.val = CASE out.args.name = "P256K1" -> 32
                          [] out.args.name = "NIST P521" -> 66
                          [] out.args.name = "P192P224" -> 24
                          [] OTHER -> 0

C18_Witness ==
    Sized /\ out.args.name = "secp256k1" /\ out.tag = "return" /\ out.val = 0

\* C19: curve_bytes returns P192 -> 24, P224 -> 28, P256 -> 32, P384 -> 48,
\* P521 -> 66, BN256 -> 32, BN638 -> 80, SM256 -> 32, the bit length of the
\* field prime divided by 8 and rounded up.
C19_CurveBytesTable ==
    (Sized /\ out.args.name \in CurveNames)
        => /\ out.tag = "return"
           /\ out.val = CASE out.args.name = "P192" -> 24 [] out.args.name = "P224" -> 28
                          [] out.args.name = "P256" -> 32 [] out.args.name = "P384" -> 48
                          [] out.args.name = "P521" -> 66 [] out.args.name = "BN256" -> 32
                          [] out.args.name = "BN638" -> 80 [] out.args.name = "SM256" -> 32
           /\ 8 * (out.val - 1) < FIELD_PRIME_BITS[out.args.name]
           /\ FIELD_PRIME_BITS[out.args.name] <= 8 * out.val

C19_Witness ==
    Sized /\ out.args.name = "BN638" /\ out.tag = "return" /\ out.val = 80

\* the wire codes as the interface lists them
WIRE_CODE ==
    ("P192" :> 1) @@ ("P224" :> 2) @@ ("P256" :> 3) @@ ("P384" :> 4) @@ ("P521" :> 5) @@
    ("BN256" :> 16) @@ ("BN638" :> 17) @@ ("SM256" :> 32) @@
    ("ECDSA" :> 24) @@ ("ECDAA" :> 26) @@ ("SM2" :> 27) @@ ("ECSCHNORR" :> 28)

\* the names a table of the given name holds
TableNames(t) ==
    IF t \in {"CURVES", "CURVES_REVERSED", "attack.CURVES"} THEN CurveNames ELSE AlgNames

Resolved == out.op = "lookup"

\* the tables carry the listed wire codes, each REVERSED table inverts its
\* table, and the tables of extract_signatures.py agree with them
RegistriesInverse ==
    /\ DOMAIN CURVES = CurveNames /\ DOMAIN ALGS = AlgNames
    /\ DOMAIN CURVES_REVERSED = {WIRE_CODE[c] : c \in CurveNames}
    /\ DOMAIN ALGS_REVERSED = {WIRE_CODE[a] : a \in AlgNames}
    /\ \A c \in CurveNames :
           /\ int16_str(CURVES[c]) = Return(WIRE_CODE[c])
           /\ CURVES_REVERSED[WIRE_CODE[c]] = c
           /\ CURVES[c] \in DOMAIN attack_CURVES /\ attack_CURVES[CURVES[c]] = c
    /\ \A a \in AlgNames :
           /\ int16_str(ALGS[a]) = Return(WIRE_CODE[a])
           /\ ALGS_REVERSED[WIRE_CODE[a]] = a
           /\ ALGS[a] \in DOMAIN attack_ALGS /\ attack_ALGS[ALGS[a]] = a
    /\ DOMAIN attack_CURVES = {CURVES[c] : c \in CurveNames}
    /\ DOMAIN attack_ALGS = {ALGS[a] : a \in AlgNames}

\* C20: the name <-> code tables carry the listed wire codes and are inverse to
\* each other (a code string being read in base 16), the tables of
\* extract_signatures.py agree with those of common.py, and a lookup of a name
\* or code that is not in the table fails with KeyError.
C20_Registries ==
    /\ RegistriesInverse
    /\ Resolved =>
           LET t == out.args.table
               key == out.args.key
           IN  CASE t \in {"CURVES", "ALGS"} ->
                        IF key \in TableNames(t)
                        THEN out.tag = "return" /\ int16_str(out.val) = Return(WIRE_CODE[key])
                        ELSE out.tag = "raise" /\ out.val = "KeyError"
                 [] t \in {"CURVES_REVERSED", "ALGS_REVERSED"} ->
                        IF \E name \in TableNames(t) : WIRE_CODE[name] = key
                        THEN /\ out.tag = "return" /\ out.val \in TableNames(t)
                             /\ WIRE_CODE[out.val] = key
                        ELSE out.tag = "raise" /\ out.val = "KeyError"
                 [] t \in {"attack.CURVES", "attack.ALGS"} ->
                        IF \E name \in TableNames(t) : NameTables[IF t = "attack.CURVES" THEN "CURVES" ELSE "ALGS"][name] = key
                        THEN /\ out.tag = "return" /\ out.val \in TableNames(t)
                             /\ int16_str(key) = Return(WIRE_CODE[out.val])
                        ELSE out.tag = "raise" /\ out.val = "KeyError"

C20_Witness ==
    /\ Resolved /\ out.args.table = "CURVES_REVERSED" /\ out.args.key = 32
    /\ out.tag = "return" /\ out.val = "SM256"

C20_WitnessUnknown ==
    /\ Resolved /\ out.args.table = "attack.ALGS"
    /\ out.args.key = <<"0", "x", "0", "0", "1", "A">> /\ out.tag = "raise"

\* the revision of the row is unavailable: the caller passed none, or passed
\* the revision of a report that has none
RevisionUnavailable ==
    \/ row.source = "default"
    \/ row.source = "device" /\ get_device_info(REPORTS[row.report]).val.revision = UNKNOWN_REVISION

\* C21: when the revision is unavailable (omitted by the caller, or reported
\* as 0.0 by get_device_info), compute_nonce and verify_signature return what
\* they return for revision 1.38.
C21_UnavailableIsDefault ==
    /\ (Computed /\ RevisionUnavailable)
           => out = [op |-> "compute_nonce"] @@
                    compute_nonce(row.r, row.s, row.x, row.e, row.algorithm, row.curve, 138)
    /\ (Verified /\ RevisionUnavailable)
           => out = [op |-> "verify_signature"] @@
                    verify_signature(row.r, row.s, row.pk, row.e, row.algorithm, row.curve,
                                     138, row.nonce_point)

\* an ECDAA row of a report without revision, whose nonce is not the nonce of
\* revision 1.38
C21_Witness ==
    /\ Computed /\ row.source = "device" /\ row.revision = hundredths(UNKNOWN_REVISION)
    /\ row.algorithm = "ECDAA"
    /\ out.tag = "return"
    /\ out.val # compute_nonce(row.r, row.s, row.x, row.e, "ECDAA", row.curve, 138).val

\* C21 (omitted): a call that passes no revision returns what the call with
\* revision 1.38 returns
C21_OmittedIsDefault ==
    /\ (Computed /\ row.source = "default")
           => out = [op |-> "compute_nonce"] @@
                    compute_nonce(row.r, row.s, row.x, row.e, row.algorithm, row.curve, 138)
    /\ (Verified /\ row.source = "default")
           => out = [op |-> "verify_signature"] @@
                    verify_signature(row.r, row.s, row.pk, row.e, row.algorithm, row.curve,
                                     138, row.nonce_point)

Done(t) == threads[t].pc = "done"

SameAsAlone == \A t \in Threads : Done(t) => threads[t].result = RunAlone(CALLS[threads[t].call])

\* the threads whose call is verify_signature for ECDAA on a known curve
\* without a nonce point
Warners ==
    {t \in Threads :
        /\ threads[t].call # 0
        /\ CALLS[threads[t].call].fn = "verify_signature"
        /\ CALLS[threads[t].call].algorithm = "ECDAA"
        /\ CALLS[threads[t].call].curve \in CurveNames
        /\ CALLS[threads[t].call].nonce_point = None}

\* the threads that have made at least k writes of their warning
Wrote(k) ==
    {t \in Warners :
        \/ Done(t)
        \/ threads[t].pc = "printing" /\ Len(print(NO_NONCE_POINT)) - Len(threads[t].pending) >= k}

\* the number of writes of text in the stream
Count(stream, text) == Cardinality({i \in 1..Len(stream) : stream[i] = text})

\* every line of the stream is one whole warning
WholeLines ==
    /\ Len(stdout) % 2 = 0
    /\ \A i \in 1..Len(stdout) :
           stdout[i] = (IF i % 2 = 1 THEN NO_NONCE_POINT ELSE "\n")

\* C22 (as stated): under any interleaving of concurrent calls of
\* compute_nonce, verify_signature, reconstruct_pk and curve_bytes the
\* registries are unchanged, nothing is written to standard output, and every
\* finished call has the result it has when it runs alone.
C22_Pure ==
    /\ registries = REGISTRIES
    /\ stdout = <<>>
    /\ SameAsAlone

\* C22 (amended): the same, except that each verify_signature call for ECDAA
\* without a nonce point writes the warning text and then a line end to
\* standard output before it returns, and nothing else is written; the writes
\* of concurrent calls may interleave.
C22_PureButWarning ==
    /\ registries = REGISTRIES
    /\ \A i \in 1..Len(stdout) : stdout[i] \in {NO_NONCE_POINT, "\n"}
    /\ Count(stdout, NO_NONCE_POINT) = Cardinality(Wrote(1))
    /\ Count(stdout, "\n") = Cardinality(Wrote(2))
    /\ \A t \in Warners : Done(t) => threads[t].result = Return(TRUE)
    /\ SameAsAlone

\* a call has written its warning and returned between the two writes of the
\* warning of another call, which has not returned
C22_Witness ==
    \E t, u \in Threads :
        /\ t # u
        /\ Done(t) /\ t \in Warners /\ threads[t].result = Return(TRUE)
        /\ threads[u].pc = "printing" /\ u \in Warners /\ Len(threads[u].pending) = 1
        /\ stdout = <<NO_NONCE_POINT, NO_NONCE_POINT, "\n">>
        /\ ~WholeLines

\* the resources whose creation raises an exception
FailingResources == {LIST_TXT, GONE_TXT, OLD_FMT}

\* the log records that report the exception of a resource
LoggedFailures ==
    {i \in 1..Len(log) : log[i][1] = "error" /\ log[i][2] # "No factory accepted this source"}

\* the resources create_all has started on
Started == {i \in 1..Len(log) : log[i] = <<"debug", "Create all: Making">>}

\* C23: in create_all, when producing the measurements of one resource fails,
\* the failure is logged, the resource is skipped and every later resource is
\* still processed; no failure aborts the run.
C23_LogAndSkip ==
    /\ gen.status # "failed"
    /\ gen.status = "finished" =>
           /\ Cardinality(Started) = Len(resources)
           /\ Cardinality(LoggedFailures)
                  = Cardinality({i \in 1..Len(resources) : resources[i] \in FailingResources})

\* a resource fails with another exception than NotImplementedError while
\* resources are left: the run is aborted, nothing is logged
C23_Witness ==
    /\ gen.status = "failed"
    /\ gen.index + 1 < Len(resources)
    /\ resources[gen.index + 1] = GONE_TXT
    /\ gen.error = <<"FileNotFoundError">>
    /\ LoggedFailures = {}

\* C23 (NotImplementedError): a resource that fails with NotImplementedError
\* is logged and skipped, and the resources after it are processed
C23_NotImplementedSkipped ==
    (gen.status = "finished" /\ \A i \in 1..Len(resources) :
                                    resources[i] \in FailingResources => resources[i] = OLD_FMT)
        => /\ Cardinality(Started) = Len(resources)
           /\ Cardinality(LoggedFailures)
                  = Cardinality({i \in 1..Len(resources) : resources[i] = OLD_FMT})

\* what the lines of TEXT_LINES yield: a.zip and b.zip are files, c.zip is not
LinesYield == <<ZipMeasurement(A_ZIP), ZipMeasurement(B_ZIP)>>

\* C26: create on a '.txt' resource reads every line while the file is open:
\* the generator yields what create('-') yields on the same lines, and the
\* file is closed only after its last line was read.
C26_TxtReadWhileOpen ==
    /\ \A path \in DOMAIN files :
           files[path].closed => files[path].pos = Len(TEXT_LINES[path])
    /\ (resources \in {<<LIST_TXT>>, <<STDIN>>} /\ gen.status \in {"finished", "failed"})
           => gen.status = "finished" /\ delivered = LinesYield

\* the generator of a '.txt' resource fails on its first line: the file was
\* closed before anything was read
C26_Witness ==
    /\ resources = <<LIST_TXT>>
    /\ gen.status = "failed"
    /\ gen.error = <<"ValueError: I/O operation on closed file.">>
    /\ files[LIST_TXT].opened /\ files[LIST_TXT].closed /\ files[LIST_TXT].pos = 0
    /\ delivered = <<>>

\* C26 (input stream): create('-') yields the measurements of every line, in
\* order
C26_StdinRead ==
    (resources = <<STDIN>> /\ gen.status \in {"finished", "failed"})
        => /\ gen.status = "finished" /\ delivered = LinesYield
           /\ files[STDIN].pos = Len(TEXT_LINES[STDIN]) /\ ~files[STDIN].closed

\* the first 2 * curve_bytes(curve) characters of the digest
CutDigest ==
    SubSeq(row.e, 1, IF Len(row.e) < 2 * curve_bytes(row.curve) THEN Len(row.e)
                     ELSE 2 * curve_bytes(row.curve))

\* the x-coordinate of k*G for the nonce k that compute_nonce returns for the
\* row with the digest e
NoncePointX(e) ==
    LET nonce == compute_nonce(row.r, row.s, row.x, e, "ECDSA", row.curve, row.revision)
    IN  IF nonce.tag = "raise" THEN -1
        ELSE point_mul(CURVE_PARAMS[row.curve], hex_value(nonce.val), GENERATORS[row.curve]).x

\* an ECDSA row with hex digest, s invertible and pk = x*G has been verified
EcdsaVerified ==
    /\ Verified /\ row.algorithm = "ECDSA" /\ row.s % N # 0 /\ DigestIsHex
    /\ row.x = row.d

\* C24 (as stated): verify_signature finds an ECDSA row valid exactly when
\* the x-coordinate of k*G is r, k being the nonce compute_nonce returns for
\* the row; both take the same integer from the digest, also from a digest
\* longer than 2 * curve_bytes(curve) characters.
C24_SameDigestInteger ==
    EcdsaVerified
        => /\ out.tag = "return"
           /\ (out.val = TRUE) <=> (NoncePointX(row.e) = row.r)
           /\ TruncatedDigest = WholeDigest

\* C24 (amended): verify_signature finds the row valid exactly when the
\* x-coordinate of k*G is r, k being the nonce compute_nonce returns for the
\* row with its digest cut to the first 2 * curve_bytes(curve) characters.
C24_AgreeOnCutDigest ==
    EcdsaVerified
        => /\ out.tag = "return"
           /\ (out.val = TRUE) <=> (NoncePointX(CutDigest) = row.r)

\* a valid row with a longer digest, whose nonce from the whole digest does
\* not give r
C24_Witness ==
    /\ EcdsaVerified
    /\ Len(row.e) > 2 * curve_bytes(row.curve)
    /\ out.tag = "return" /\ out.val = TRUE
    /\ row.r # 0
    /\ NoncePointX(CutDigest) = row.r
    /\ NoncePointX(row.e) # row.r

\* an ECSCHNORR row with hex digest has been verified under a revision below
\* 1.33
OldSchnorrVerified ==
    /\ Verified /\ row.algorithm = "ECSCHNORR" /\ row.revision < 133 /\ DigestIsHex

\* C25: for ECSCHNORR below revision 1.33 the stripping of the leading zero
\* bytes of K.x ends and verify_signature returns a boolean for every
\* K = s*G - r*PK, also when every byte of K.x is zero.
C25_StrippingReturns ==
    OldSchnorrVerified => (out.tag = "return" /\ out.val \in BOOLEAN)

\* K is the point at infinity (s = r*d mod n): every byte of K.x is zero and
\* the stripping reads x_coord[0] of the emptied bytes
C25_Witness ==
    /\ OldSchnorrVerified
    /\ (row.s - row.r * row.d) % N = 0
    /\ SchnorrK = IDENTITY_ELEMENT
    /\ strip_zero_bytes(be_bytes(SchnorrK.x, curve_bytes(row.curve))).tag = "raise"
    /\ out = [op |-> "verify_signature"] @@ Raise("IndexError: index out of range")

\* C25 (a nonzero byte): where K.x has a nonzero byte the call returns a
\* boolean
C25_ReturnsOffZero ==
    (OldSchnorrVerified /\ SchnorrK.x # 0) => (out.tag = "return" /\ out.val \in BOOLEAN)

(***************************************************************************)
(* Database.Handle: get-or-create through the 'default' cache region.      *)
(***************************************************************************)
\* the entities of a class and key that were added to the session
AddedOf(cls, key) ==
    {i \in 1..Len(session.added) : session.added[i].cls = cls /\ session.added[i].key = key}

\* C27: after any sequence of algorithm(name) and machine(hostname) calls at
\* most one Algorithm per name and at most one Device per hostname has been
\* added to the session: a repeated call returns the entity created earlier.
C27_OnePerKey ==
    \A k \in CacheKeys : Cardinality(AddedOf(k[1], k[2])) <= 1

\* machine(hostname) has returned a second new Device of a hostname, made
\* from the empty result cached by the first call
C27_Witness ==
    /\ out.op = "machine" /\ out.tag = "return"
    /\ Cardinality(AddedOf("Device", out.args.key)) = 2
    /\ out.val = session.added[Len(session.added)]
    /\ cache[<<"Device", out.args.key>>].present
    /\ cache[<<"Device", out.args.key>>].value = <<>>

\* what holds: a call returns an entity of the key it was asked for, and a
\* new one only when the result it got, cached or not, was empty
C27_NewOnlyOnEmptyResult ==
    (out.op \in {"machine", "algorithm"} /\ out.tag = "return") =>
        /\ out.val.key = out.args.key
        /\ LET k == <<IF out.op = "machine" THEN "Device" ELSE "Algorithm", out.args.key>>
           IN  (cache[k].present /\ cache[k].value # <<>>) => out.val = cache[k].value[1]

(***************************************************************************)
(* DBAggregator.compute: the tables of the handle.                         *)
(***************************************************************************)
\* the table of a pair in tables t, as an entry: missing or present
TableOf(t, aggregate, algorithm) ==
    IF t[aggregate].present THEN t[aggregate].value[algorithm] ELSE Missing

Pairs == AGGREGATES \X ALGORITHM_NAMES

\* C28: compute memoizes per handle: the query of an (aggregate, algorithm)
\* pair is executed at most once, also when it has no rows; a later compute
\* of the pair returns the same table without executing the query, and the
\* tables of the other pairs are left unchanged.
C28_Memoized ==
    /\ \A pair \in Pairs : executed[pair] <= 1
    /\ \A pair \in Pairs :
           executed[pair] = 1 => TableOf(handle_tables, pair[1], pair[2]).present
    /\ (out.op = "compute" /\ out.tag = "return") =>
           LET before == TableOf(out.before, out.args.aggregate, out.args.algorithm)
           IN  /\ TableOf(handle_tables, out.args.aggregate, out.args.algorithm)
                      = Present(out.val)
               /\ before.present => (~out.executed /\ out.val = before.value)
               /\ \A pair \in Pairs \ {<<out.args.aggregate, out.args.algorithm>>} :
                      TableOf(handle_tables, pair[1], pair[2])
                          = TableOf(out.before, pair[1], pair[2])

\* compute has returned the empty table of a pair whose query had run before
\* and had no rows, without executing it again
C28_Witness ==
    /\ out.op = "compute" /\ out.tag = "return"
    /\ out.val = <<>>
    /\ ~out.executed
    /\ executed[<<out.args.aggregate, out.args.algorithm>>] = 1
    /\ \E pair \in Pairs \ {<<out.args.aggregate, out.args.algorithm>>} :
           TableOf(handle_tables, pair[1], pair[2]).present

(***************************************************************************)
(* DBMeasurement.Details.tpm_data on the stored measurements.              *)
(***************************************************************************)
\* C29: tpm_data returns a result for every stored measurement: None when
\* platform, vendor and vendor_string are all absent, otherwise a TPMData
\* whose firmware is the stored firmware as an integer, or None when the
\* stored firmware is absent; it never fails on a NULL firmware.
C29_AlwaysReturns ==
    out.op = "tpm_data" =>
        LET entity == out.args.entity
        IN  /\ out.tag = "return"
            /\ (entity.platform = None /\ entity.vendor = None /\ entity.vendor_string = None)
                   => out.val = None
            /\ ~(entity.platform = None /\ entity.vendor = None /\ entity.vendor_string = None)
                   => /\ out.val # None
                      /\ out.val[1].firmware = None <=> entity.firmware = None

\* a stored measurement with a platform and a NULL firmware: tpm_data raises
C29_Witness ==
    /\ out.op = "tpm_data"
    /\ out.args.entity.platform # None
    /\ out.args.entity.firmware = None
    /\ out.tag = "raise" /\ out.val = "UnboundLocalError"

\* tpm_data on a Measurement of the session whose firmware is the int it was
\* made with, and which has another column
NewFirmware ==
    /\ out.op = "tpm_data"
    /\ out.args.entity.firmware # None
    /\ out.args.entity.firmware[1].type = "int"
    /\ \E f \in {"platform", "vendor", "vendor_string"} : out.args.entity[f] # None

\* the second failure: until the object is expired and loaded from its row,
\* the firmware of a Measurement that Handle.measurement has made is an int,
\* and tpm_data raises AttributeError on it
C29_NewFirmwareRaises == NewFirmware => (out.tag = "raise" /\ out.val = "AttributeError")

\* handle.measurement has made a Measurement with a firmware, and tpm_data
\* on it has raised
C29_WitnessNewFirmware ==
    /\ NewFirmware /\ "id" \in DOMAIN out.args
    /\ out.tag = "raise" /\ out.val = "AttributeError"

\* what holds: with a firmware loaded from the row tpm_data returns when the
\* columns could be read, the firmware being the stored one rounded to an
\* integer; with no column at all it returns None
C29_ReturnsWithFirmware ==
    (/\ out.op = "tpm_data"
     /\ ~(out.tag = "raise" /\ out.val \in SESSION_ERRORS)
     /\ \/ (out.args.entity.firmware # None /\ out.args.entity.firmware[1].type = "Decimal")
        \/ \A f \in {"platform", "vendor", "vendor_string"} : out.args.entity[f] = None) =>
        /\ out.tag = "return"
        /\ out.val # None =>
               LET d == out.args.entity.firmware[1]
                   firmware == out.val[1].firmware[1]
               IN  /\ d.exp >= 0 => firmware = d.coef * 10^d.exp
                   /\ d.exp = -1 => /\ 2 * (10 * firmware - d.coef) <= 10
                                    /\ 2 * (d.coef - 10 * firmware) <= 10
                   /\ out.val[1].platform = out.args.entity.platform

====
